---- MODULE Spec2Model ----
(***************************************************************************)
(* Model of the Telegram channel of the assistant firmware                 *)
(* (main/telegram.c): startup flush, long-poll ingest, authorisation,      *)
(* truncation recovery and exponential backoff, together with the chat     *)
(* API server and the agent input queue they talk to; of its send task;    *)
(* of the i2c_scan tool handler with the GPIO allow check; and of the      *)
(* create_tool / delete_user_tool handlers (main/tools_system.c); of the   *)
(* rate limiter, the agent loop, the scheduler and the boot guard as the   *)
(* design document describes them; and of telegram_start and the helper    *)
(* functions i64_to_str and get_backoff_delay_ms called on their own.      *)
(*                                                                         *)
(* Numbers.  TLC integers are 32 bits wide, so the 64-bit ids of the       *)
(* program are modelled at a reduced scale: a C double holds every integer *)
(* up to 2^53 exactly; the model's double holds every integer up to        *)
(* 2^MantBits exactly and rounds larger ones to nearest, ties to even,     *)
(* exactly as IEEE-754 does.  Update ids and chat ids are drawn around     *)
(* that threshold, so both the exact and the rounded cases occur.          *)
(***************************************************************************)
EXTENDS Integers, Sequences, FiniteSets, TLC

VARIABLES
    nvs,                      \* persistent store: key -> stored string
    init_ret,                 \* return value of telegram_init
    pc,                       \* position of telegram_poll_task
    s_bot_token,              \* TRUE iff s_bot_token[0] != '\0'
    s_chat_id,                \* authorised chat id, 0 = none
    s_last_update_id,         \* last-seen update id (RAM only)
    s_consecutive_failures,   \* backoff state
    flush_last_id,            \* local last_id of telegram_flush_pending
    flush_runs,               \* completed calls of telegram_flush_pending
    flush_first,              \* s_last_update_id when the first call returned
    polled,                   \* TRUE once telegram_poll has issued a request
    input_queue,              \* agent input queue (FreeRTOS queue)
    pending,                  \* chat API: unconfirmed updates, ascending ids
    next_id,                  \* chat API: id of the next update to arrive
    preboot,                  \* ids pending at the chat API when the device booted
    enq_log,                  \* every message placed on the input queue, in order
    req,                      \* the getUpdates request telegram_poll issued last
    http,                     \* what esp_http_client_perform left behind for that request
    poll_err,                 \* return value of the last telegram_poll
    poll_path,                \* the return statement that produced it
    prev,                     \* s_last_update_id, failure count, log length when that poll began
    delay_ms,                 \* argument of the first vTaskDelay of the loop iteration
    output_queue,             \* Telegram output queue: agent replies waiting to be sent
    next_reply,               \* number the agent gives its next reply
    taken,                    \* replies telegram_send_task has taken from the queue
    posts,                    \* sendMessage POSTs issued, in order (reply numbers)
    chat_log,                 \* replies the chat has received, in order
    gpio_cfg,                 \* build configuration of the GPIO allow check
    i2c_installed,            \* TRUE iff an I2C driver is installed on I2C_SCAN_PORT
    i2c_links,                \* I2C command links created and not deleted
    scan,                     \* the last call of tools_i2c_scan_handler and its return
    user_tools,               \* table of user-defined tools, in order of creation
    tool_ret,                 \* the last call of a user-tool handler and its return
    now,                      \* current epoch in seconds (uptime until the clock is synced)
    time_synced,              \* TRUE once the clock has been synced
    ratelimit,                \* rate counter: hour and day counts with window starts
    admit_ret,                \* the last call of the rate limiter's admit and its result
    hour_allowed,             \* admissions granted in the wall-clock hour of that call
    day_allowed,              \* admissions granted in the wall-clock day of that call
    agent_state,              \* state of the agent turn: Idle, Admitting, Thinking, ...
    agent_msg,                \* the message the agent is processing
    agent_out,                \* the final text of the turn
    history,                  \* conversation history, oldest turn first
    appended,                 \* turns ever appended to the history
    iterations,               \* tool iterations of the turn
    retries,                  \* retries of the current LLM request
    llm_calls,                \* LLM calls of the turn
    emitted,                  \* final texts handed to the output channels, in order
    tool_log,                 \* tool executions, in order, with their message
    open_turns,               \* messages taken whose turn has not ended
    arrived,                  \* messages that have arrived for the input queue
    cron_jobs,                \* job table of the scheduler, in memory
    cron_nvs,                 \* job table as persisted
    tick_ret,                 \* the last round of the scheduler: time, table before, messages sent and dropped
    fired_count,              \* messages each job has put on the input queue
    boot_count,               \* boot counter in the persistent store
    running,                  \* TRUE while the device is up
    uptime_ms,                \* time since the last boot
    safe_mode,                \* TRUE iff the last boot entered safe mode
    services,                 \* what the last boot started
    boot_ret,                 \* what the last boot found: counter, safe mode and uptime before it
    start_pc,                 \* position of telegram_start
    start_ret,                \* return value of telegram_start
    poll_task,                \* the task tg_poll: none, running, deleted
    send_task,                \* the task tg_send: none, running
    fn_call,                  \* the last direct call of a helper function: name and arguments
    fn_ret                    \* what that call returned

vars == <<nvs, init_ret, pc, s_bot_token, s_chat_id, s_last_update_id, s_consecutive_failures,
          flush_last_id, flush_runs, flush_first, polled, input_queue, pending, next_id, preboot, enq_log, req, http,
          poll_err, poll_path, prev, delay_ms,
          output_queue, next_reply, taken, posts, chat_log,
          gpio_cfg, i2c_installed, i2c_links, scan, user_tools, tool_ret,
          now, time_synced, ratelimit, admit_ret, hour_allowed, day_allowed,
          agent_state, agent_msg, agent_out, history, appended, iterations, retries,
          llm_calls, emitted, tool_log, open_turns, arrived,
          cron_jobs, cron_nvs, tick_ret, fired_count,
          boot_count, running, uptime_ms, safe_mode, services, boot_ret,
          start_pc, start_ret, poll_task, send_task, fn_call, fn_ret>>

\* The variables of the send task.
send_vars == <<output_queue, next_reply, taken, posts, chat_log>>

\* The variables of the I2C scan tool.
i2c_vars == <<gpio_cfg, i2c_installed, i2c_links, scan>>

\* The variables of the user-tool handlers.
tool_vars == <<user_tools, tool_ret>>

\* The variables of the Telegram channel.
tg_vars == <<nvs, init_ret, pc, s_bot_token, s_chat_id, s_last_update_id, s_consecutive_failures,
             flush_last_id, flush_runs, flush_first, polled, input_queue, pending,
             next_id, preboot, enq_log, req, http, poll_err, poll_path, prev, delay_ms>>

\* The clock.
clock_vars == <<now, time_synced>>

\* The variables of the rate limiter.
rate_vars == <<ratelimit, admit_ret, hour_allowed, day_allowed>>

\* The variables of the agent.
agent_vars == <<agent_state, agent_msg, agent_out, history, appended, iterations,
                retries, llm_calls, emitted, tool_log, open_turns, arrived>>

\* The variables of the scheduler.
cron_vars == <<cron_jobs, cron_nvs, tick_ret, fired_count>>

\* The variables of the supervisor.
boot_vars == <<boot_count, running, uptime_ms, safe_mode, services, boot_ret>>

\* The variables of telegram_start.
start_vars == <<start_pc, start_ret, poll_task, send_task>>

\* The variables of a direct call of a helper function.
fn_vars == <<fn_call, fn_ret>>

\* The variables of the agent, the rate limiter, the scheduler, the supervisor,
\* the start of the Telegram tasks and the direct calls.
sys_vars == <<clock_vars, rate_vars, agent_vars, cron_vars, boot_vars, start_vars, fn_vars>>

\* Everything the poll task does not touch.
aux_vars == <<send_vars, i2c_vars, tool_vars, sys_vars>>

----------------------------------------------------------------------------
(* Bounds of the model *)

I64Bits == 10          \* width of the model's int64_t (64 in the program)
MantBits == 3          \* mantissa width of the model's double (53 in the program)
MaxPreboot == 2        \* updates pending at the chat API at boot
MaxUpdates == 2        \* updates the chat API ever holds (pre-boot and arrived)
MaxFailures == 2       \* consecutive failed polls explored by Spec
BackoffFailures == 8   \* consecutive failed polls explored by SpecBackoff
MaxEnqueued == 2       \* messages placed on the input queue in one run
InputQueueCap == 1     \* capacity of the agent input queue
MaxReplies == 3        \* replies the agent produces in one run
OutputQueueCap == 2    \* capacity of the Telegram output queue
MaxDevices == 117      \* devices answering a scan on the full-size result buffer
FewDevices == 3        \* devices answering a scan on the shorter result buffers
MaxResultLen == 96     \* longest of the shorter result buffers
MaxUserTools == 2      \* capacity of the user-tool table
MaxClockSteps == 4     \* half hours the synced clock runs on
MaxMessages == 2       \* messages that arrive for the agent in one run
MaxJobs == 2           \* jobs in the scheduler table
MaxCronTicks == 4      \* scheduler rounds after the clock sync
MaxBootCount == 5      \* highest value of the boot counter explored
MaxBackoffInput == 120 \* failure counts called one by one
MaxBufSize == 7        \* largest buffer handed to i64_to_str directly
EarlierToday == 175    \* admissions already granted today when a run starts

(* Program constants *)

INT_MAX == 2147483647
BACKOFF_BASE_MS == 5000
BACKOFF_MAX_MS == 300000
BACKOFF_MULTIPLIER == 2
TELEGRAM_POLL_TIMEOUT == 30
POLL_LIMIT == 1
POLL_TIMEOUT_MARGIN_S == 10
OFF_BUF_SIZE == 24
NOT_CONFIGURED_DELAY_MS == 10000
TOOL_RESULT_LEN == 512
USER_TOOL_NAME_MAX == 32

I2C_SCAN_ADDR_FIRST == 3
I2C_SCAN_ADDR_LAST == 119
I2C_SCAN_DEFAULT_FREQ_HZ == 100000
I2C_SCAN_MIN_FREQ_HZ == 10000
I2C_SCAN_MAX_FREQ_HZ == 1000000

Exact == 2 ^ MantBits  \* largest n such that every integer in 0..n is a double

----------------------------------------------------------------------------
(* Keys of the persistent store (nvs_keys.h) *)

NVS_KEY_TG_TOKEN == "tg_token"
NVS_KEY_TG_CHAT_ID == "tg_chat_id"

----------------------------------------------------------------------------
(* Small helpers *)

Min(a, b) == IF a < b THEN a ELSE b

Abs(v) == IF v < 0 THEN -v ELSE v

SetMax(S) == CHOOSE m \in S : \A x \in S : x <= m

RECURSIVE Ids(_)
Ids(us) == IF us = <<>> THEN {} ELSE {Head(us).id} \cup Ids(Tail(us))

Take(s, n) == SubSeq(s, 1, Min(n, Len(s)))

----------------------------------------------------------------------------
(* Text and number conversions *)

DigitChars == <<"0", "1", "2", "3", "4", "5", "6", "7", "8", "9">>

IsDigit(c) == \E d \in 1..10 : DigitChars[d] = c

DigitVal(c) == (CHOOSE d \in 1..10 : DigitChars[d] = c) - 1

IsSpace(c) == c \in {" ", "\t", "\n", "\r", "\f"}

RECURSIVE Digits(_)
Digits(u) ==
    IF u < 10 THEN <<DigitChars[u + 1]>>
    ELSE Append(Digits(u \div 10), DigitChars[(u % 10) + 1])

\* int64_t and uint64_t at the scale of the model: I64Bits bits wide.
INT64_MIN == -(2 ^ (I64Bits - 1))

INT64_MAX == 2 ^ (I64Bits - 1) - 1

\* Conversion to uint64_t.
U64(x) == x % (2 ^ I64Bits)

\* Faulty variant: the value is cast without being negated.
i64_magnitude_cast(val) == U64(val)

\* i64_to_str: uval, the magnitude of val as a uint64_t.
i64_magnitude(val) == IF val < 0 THEN U64(U64(-(val + 1)) + 1) ELSE U64(val)

\* The terminating '\0'.
NUL == "NUL"

\* i64_to_str, the do-while loop: digits are written right to left below
\* offset p of the buffer; ok = FALSE is the return of the overflow guard.
RECURSIVE i64_digits_loop(_, _, _, _)
i64_digits_loop(uval, p, buf, written) ==
    IF p = 0 THEN [ok |-> FALSE, p |-> p, buf |-> buf, written |-> written]
    ELSE LET q == p - 1
             b == [buf EXCEPT ![q] = DigitChars[(uval % 10) + 1]]
             w == written \cup {q}
         IN IF uval \div 10 > 0 THEN i64_digits_loop(uval \div 10, q, b, w)
            ELSE [ok |-> TRUE, p |-> q, buf |-> b, written |-> w]

\* The C string that starts at offset p of the buffer.
RECURSIVE c_string(_, _)
c_string(buf, p) ==
    IF p \notin DOMAIN buf \/ buf[p] = NUL THEN <<>>
    ELSE <<buf[p]>> \o c_string(buf, p + 1)

\* i64_to_str(val, buf, buf_size): the string returned and the offsets of
\* the buffer written to.
i64_to_str_buf(val, buf_size) ==
    IF buf_size = 0 THEN [text |-> <<>>, written |-> {}]
    ELSE LET negative == val < 0
             uval == i64_magnitude(val)
             p0 == buf_size - 1
             buf0 == [[i \in 0..(buf_size - 1) |-> "?"] EXCEPT ![p0] = NUL]
             r == i64_digits_loop(uval, p0, buf0, {p0})
         IN IF ~r.ok THEN [text |-> <<"0">>, written |-> r.written]
            ELSE IF ~negative THEN [text |-> c_string(r.buf, r.p), written |-> r.written]
            ELSE IF r.p = 0 THEN [text |-> <<"0">>, written |-> r.written]
            ELSE [text |-> c_string([r.buf EXCEPT ![r.p - 1] = "-"], r.p - 1),
                  written |-> r.written \cup {r.p - 1}]

\* i64_to_str: the string returned.
i64_to_str(val, buf_size) == i64_to_str_buf(val, buf_size).text

RECURSIVE SkipSpace(_)
SkipSpace(s) == IF s # <<>> /\ IsSpace(Head(s)) THEN SkipSpace(Tail(s)) ELSE s

RECURSIVE DigitRun(_, _, _)
DigitRun(s, value, count) ==
    IF s # <<>> /\ IsDigit(Head(s))
    THEN DigitRun(Tail(s), value * 10 + DigitVal(Head(s)), count + 1)
    ELSE [value |-> value, count |-> count, rest |-> s]

\* strtoll(nptr, &endptr, 10): optional white space, optional sign, digits.
\* ok = FALSE stands for endptr == nptr (no conversion).
strtoll(s) ==
    LET t == SkipSpace(s)
        signed == t # <<>> /\ Head(t) \in {"-", "+"}
        neg == t # <<>> /\ Head(t) = "-"
        run == DigitRun(IF signed THEN Tail(t) ELSE t, 0, 0)
    IN IF run.count = 0
       THEN [ok |-> FALSE, value |-> 0, rest |-> s]
       ELSE [ok |-> TRUE, value |-> IF neg THEN -run.value ELSE run.value,
             rest |-> run.rest]

\* Faulty variant: whatever follows the number is ignored.
parse_chat_id_string_prefix(input) ==
    LET r == strtoll(SkipSpace(input))
    IN IF ~r.ok \/ r.value = 0 THEN [ok |-> FALSE, chat_id |-> 0]
       ELSE [ok |-> TRUE, chat_id |-> r.value]

\* parse_chat_id_string: white space, strtoll, white space, end of string.
\* The strings drawn below stay far inside the range of long long, so the
\* clamping of strtoll is never reached.
parse_chat_id_string(input) ==
    LET cursor == SkipSpace(input)
        r == strtoll(cursor)
        tail == SkipSpace(r.rest)
    IN IF cursor = <<>> THEN [ok |-> FALSE, chat_id |-> 0]
       ELSE IF ~r.ok THEN [ok |-> FALSE, chat_id |-> 0]
       ELSE IF tail # <<>> \/ r.value = 0 THEN [ok |-> FALSE, chat_id |-> 0]
       ELSE [ok |-> TRUE, chat_id |-> r.value]

\* Spacing of the doubles around a: 1 up to Exact, 2 up to 2*Exact, ...
RECURSIVE DoubleStep(_, _)
DoubleStep(a, step) == IF a <= Exact * step THEN step ELSE DoubleStep(a, 2 * step)

\* The double nearest to the integer v, ties to the even mantissa.
RoundToDouble(v) ==
    LET a == Abs(v)
        step == DoubleStep(a, 1)
        q == a \div step
        r == a % step
        m == IF 2 * r < step THEN q * step
             ELSE IF 2 * r > step THEN (q + 1) * step
             ELSE IF q % 2 = 0 THEN q * step ELSE (q + 1) * step
    IN IF v < 0 THEN -m ELSE m

\* (int64_t)item->valuedouble: cJSON keeps a JSON number as a double.
json_number_to_int64(n) == RoundToDouble(n)

----------------------------------------------------------------------------
(* Formatting and JSON values used by the tool handlers *)

HexChars == <<"0", "1", "2", "3", "4", "5", "6", "7", "8", "9",
              "A", "B", "C", "D", "E", "F">>

\* printf %02X of a value below 256.
FmtX02(v) == <<HexChars[((v \div 16) % 16) + 1], HexChars[(v % 16) + 1]>>

\* printf %d.
FmtD(v) == IF v < 0 THEN <<"-">> \o Digits(-v) ELSE Digits(v)

\* snprintf(buf + offset, size, "...") with the formatted text given: at
\* most size - 1 characters and a terminator are stored, the full length
\* is returned.  buf is the C string in the buffer.
snprintf(buf, offset, size, text) ==
    [buf |-> IF size = 0 THEN buf ELSE Take(buf, offset) \o Take(text, size - 1),
     written |-> Len(text)]

\* A member of the input object as cJSON holds it.  A number is kept in
\* halves, so that values between two integers occur.
JsonAbsent == [type |-> "absent", halves |-> 0]

JsonString == [type |-> "string", halves |-> 0]

JsonNumber(halves) == [type |-> "number", halves |-> halves]

cJSON_IsNumber(item) == item.type = "number"

\* item->valueint: the number truncated toward zero.
valueint(item) ==
    IF item.halves >= 0 THEN item.halves \div 2 ELSE -((-item.halves) \div 2)

----------------------------------------------------------------------------
(* GPIO allow check *)

\* Build configurations: a pin range with an empty list, and lists.
GpioRange == [min |-> 2, max |-> 5, csv |-> <<>>]

GpioCsvs ==
    {<<"4", ",", "5">>,
     <<" ", "4", " ", ",", "\t", "1", "2", ",">>,
     <<"a", ",", "5">>,
     <<",">>,
     <<"4", ",", "5", "x">>,
     <<"4", ",", "0", "x", "1", "0">>}

GpioConfigs == {GpioRange} \cup {[min |-> 2, max |-> 5, csv |-> c] : c \in GpioCsvs}

RECURSIVE SkipSeparators(_)
SkipSeparators(s) ==
    IF s # <<>> /\ Head(s) \in {" ", "\t", ","} THEN SkipSeparators(Tail(s)) ELSE s

RECURSIVE SkipToComma(_)
SkipToComma(s) == IF s # <<>> /\ Head(s) # "," THEN SkipToComma(Tail(s)) ELSE s

\* The while loop of gpio_pin_in_allowlist from cursor on.
RECURSIVE allowlist_loop(_, _)
allowlist_loop(pin, cursor) ==
    LET c == SkipSeparators(cursor)
        r == strtoll(c)
    IN IF c = <<>> THEN FALSE
       ELSE IF ~r.ok THEN allowlist_loop(pin, SkipToComma(c))
       ELSE IF r.value = pin THEN TRUE
       ELSE allowlist_loop(pin, r.rest)

gpio_pin_in_allowlist(pin, csv) ==
    IF csv = <<>> THEN FALSE ELSE allowlist_loop(pin, csv)

gpio_pin_is_allowed(pin, cfg) ==
    IF cfg.csv # <<>> THEN gpio_pin_in_allowlist(pin, cfg.csv)
    ELSE pin >= cfg.min /\ pin <= cfg.max

----------------------------------------------------------------------------
(* tools_i2c_scan_handler *)

\* The texts of its format strings.
MsgSdaRequired ==
    <<"E", "r", "r", "o", "r", ":", " ", "'", "s", "d", "a", "_", "p", "i",
      "n", "'", " ", "r", "e", "q", "u", "i", "r", "e", "d", " ", "(", "n",
      "u", "m", "b", "e", "r", ")">>

MsgSclRequired ==
    <<"E", "r", "r", "o", "r", ":", " ", "'", "s", "c", "l", "_", "p", "i",
      "n", "'", " ", "r", "e", "q", "u", "i", "r", "e", "d", " ", "(", "n",
      "u", "m", "b", "e", "r", ")">>

MsgFreqNotNumber ==
    <<"E", "r", "r", "o", "r", ":", " ", "'", "f", "r", "e", "q", "u", "e",
      "n", "c", "y", "_", "h", "z", "'", " ", "m", "u", "s", "t", " ", "b",
      "e", " ", "a", " ", "n", "u", "m", "b", "e", "r">>

MsgSamePins ==
    <<"E", "r", "r", "o", "r", ":", " ", "S", "D", "A", " ", "a", "n", "d",
      " ", "S", "C", "L", " ", "m", "u", "s", "t", " ", "b", "e", " ", "d",
      "i", "f", "f", "e", "r", "e", "n", "t", " ", "p", "i", "n", "s">>

MsgError ==
    <<"E", "r", "r", "o", "r", ":", " ">>

MsgNotInList ==
    <<" ", "i", "s", " ", "n", "o", "t", " ", "i", "n", " ", "a", "l", "l",
      "o", "w", "e", "d", " ", "l", "i", "s", "t">>

MsgPinMustBe ==
    <<" ", "p", "i", "n", " ", "m", "u", "s", "t", " ", "b", "e", " ">>

MsgPin ==
    <<" ", "p", "i", "n", " ">>

MsgFreqMustBe ==
    <<"E", "r", "r", "o", "r", ":", " ", "f", "r", "e", "q", "u", "e", "n",
      "c", "y", "_", "h", "z", " ", "m", "u", "s", "t", " ", "b", "e", " ">>

MsgParamConfig ==
    <<"E", "r", "r", "o", "r", ":", " ", "i", "2", "c", "_", "p", "a", "r",
      "a", "m", "_", "c", "o", "n", "f", "i", "g", " ", "f", "a", "i", "l",
      "e", "d", " ", "(", "E", "S", "P", "_", "F", "A", "I", "L", ")">>

MsgInstall ==
    <<"E", "r", "r", "o", "r", ":", " ", "i", "2", "c", "_", "d", "r", "i",
      "v", "e", "r", "_", "i", "n", "s", "t", "a", "l", "l", " ", "f", "a",
      "i", "l", "e", "d", " ", "(", "E", "S", "P", "_", "F", "A", "I", "L",
      ")">>

MsgNoMem ==
    <<"E", "r", "r", "o", "r", ":", " ", "o", "u", "t", " ", "o", "f", " ",
      "m", "e", "m", "o", "r", "y", " ", "d", "u", "r", "i", "n", "g", " ",
      "I", "2", "C", " ", "s", "c", "a", "n">>

MsgNoDevices ==
    <<"N", "o", " ", "I", "2", "C", " ", "d", "e", "v", "i", "c", "e", "s",
      " ", "f", "o", "u", "n", "d", " ", "o", "n", " ", "S", "D", "A", "=">>

MsgFound ==
    <<"F", "o", "u", "n", "d", " ">>

MsgDevicesOn ==
    <<" ", "I", "2", "C", " ", "d", "e", "v", "i", "c", "e", "(", "s", ")",
      " ", "o", "n", " ", "S", "D", "A", "=">>

MsgScl ==
    <<" ", "S", "C", "L", "=">>

MsgAt ==
    <<" ", "@", " ">>

MsgHz ==
    <<" ", "H", "z">>

MsgHzColon ==
    <<" ", "H", "z", ":", " ">>

MsgMarkerOpen ==
    <<" ", ".", ".", ".", " ", "(", "+">>

MsgMarkerClose ==
    <<" ", "m", "o", "r", "e", ")">>

\* Faulty variant: every pin is let through.
validate_scan_pin_lax(field_name, pin, cfg) == [ok |-> TRUE, msg |-> <<>>]

\* validate_scan_pin: the check and the message it leaves on failure.
validate_scan_pin(field_name, pin, cfg) ==
    IF ~gpio_pin_is_allowed(pin, cfg)
    THEN [ok |-> FALSE,
          msg |-> IF cfg.csv # <<>>
                  THEN MsgError \o field_name \o MsgPin \o FmtD(pin) \o MsgNotInList
                  ELSE MsgError \o field_name \o MsgPinMustBe \o FmtD(cfg.min)
                       \o <<"-">> \o FmtD(cfg.max)]
    ELSE [ok |-> TRUE, msg |-> <<>>]

\* The I2C driver as the handler sees it: installed or not, command links
\* created and deleted, and the number of calls made of each driver function.
NoCalls == [delete |-> 0, config |-> 0, install |-> 0, link |-> 0, begin |-> 0]

DriverAt(installed) ==
    [installed |-> installed, created |-> 0, deleted |-> 0, calls |-> NoCalls]

i2c_driver_delete(drv) ==
    [drv EXCEPT !.installed = FALSE, !.calls.delete = @ + 1]

i2c_param_config(drv) == [drv EXCEPT !.calls.config = @ + 1]

i2c_driver_install(drv, ok) ==
    [drv EXCEPT !.installed = IF ok THEN TRUE ELSE @, !.calls.install = @ + 1]

\* One probe: link create, start/write/stop, cmd_begin, link delete.
i2c_probe(drv) ==
    [drv EXCEPT !.created = @ + 1, !.deleted = @ + 1,
                !.calls.link = @ + 1, !.calls.begin = @ + 1]

\* Faulty variant: the driver stays installed when a command link cannot be
\* allocated.
scan_link_failure_leak(drv) == [drv EXCEPT !.calls.link = @ + 1]

\* i2c_cmd_link_create returned NULL: the driver is deleted before the return.
scan_link_failure(drv) == i2c_driver_delete([drv EXCEPT !.calls.link = @ + 1])

\* What can fail inside the driver during one call.
ScanFault(at, addr) == [at |-> at, addr |-> addr]

NoFault == ScanFault("none", 0)

\* One iteration of the probe loop.
scan_probe_one(addr, st, devices, fault) ==
    IF fault.at = "link" /\ fault.addr = addr
    THEN [drv |-> scan_link_failure(st.drv), found |-> st.found, no_mem |-> TRUE]
    ELSE LET err_ok == addr \in devices
             room == Len(st.found) < I2C_SCAN_ADDR_LAST - I2C_SCAN_ADDR_FIRST + 1
         IN [drv |-> i2c_probe(st.drv),
             found |-> IF err_ok /\ room THEN Append(st.found, addr) ELSE st.found,
             no_mem |-> FALSE]

\* The probe loop over the 7-bit addresses lo..hi, in ascending order; it
\* ends at the first command link that cannot be allocated.  (The range is
\* walked as two halves, one after the other, to keep the evaluation shallow.)
RECURSIVE scan_probe(_, _, _, _, _)
scan_probe(lo, hi, st, devices, fault) ==
    IF st.no_mem \/ lo > hi THEN st
    ELSE IF lo = hi THEN scan_probe_one(lo, st, devices, fault)
    ELSE LET mid == (lo + hi) \div 2
             left == scan_probe(lo, mid, st, devices, fault)
         IN scan_probe(mid + 1, hi, left, devices, fault)

\* One iteration of the listing loop; stop stands for its break.
scan_format_one(i, found, st, result_len) ==
    IF st.offset >= result_len THEN [st EXCEPT !.stop = TRUE]
    ELSE LET text == (IF st.listed = 0 THEN <<>> ELSE <<",", " ">>)
                     \o <<"0", "x">> \o FmtX02(found[i])
             w == snprintf(st.buf, st.offset, result_len - st.offset, text)
         IN IF w.written >= result_len - st.offset
            THEN [st EXCEPT !.buf = w.buf, !.stop = TRUE]
            ELSE [buf |-> w.buf, offset |-> st.offset + w.written,
                  listed |-> st.listed + 1, stop |-> FALSE]

\* The listing loop over found[lo..hi], in order, up to its break.
RECURSIVE scan_format_loop(_, _, _, _, _)
scan_format_loop(lo, hi, found, st, result_len) ==
    IF st.stop \/ lo > hi THEN st
    ELSE IF lo = hi THEN scan_format_one(lo, found, st, result_len)
    ELSE LET mid == (lo + hi) \div 2
             left == scan_format_loop(lo, mid, found, st, result_len)
         IN scan_format_loop(mid + 1, hi, found, left, result_len)

\* The result text of a completed scan (the code after the last
\* i2c_driver_delete).
scan_format(found, sda_pin, scl_pin, frequency_hz, result_len) ==
    LET found_count == Len(found)
        where == FmtD(sda_pin) \o MsgScl \o FmtD(scl_pin) \o MsgAt
                 \o FmtD(frequency_hz)
    IN IF found_count = 0
       THEN [text |-> snprintf(<<>>, 0, result_len,
                               MsgNoDevices \o where \o MsgHz).buf,
             listed |-> 0]
       ELSE LET head == snprintf(<<>>, 0, result_len,
                                 MsgFound \o FmtD(found_count) \o MsgDevicesOn
                                 \o where \o MsgHzColon)
                offset == IF head.written < result_len THEN head.written
                          ELSE result_len - 1
                l == scan_format_loop(1, found_count, found,
                                      [buf |-> head.buf, offset |-> offset,
                                       listed |-> 0, stop |-> FALSE],
                                      result_len)
            IN IF l.listed < found_count /\ l.offset < result_len
               THEN [text |-> snprintf(l.buf, l.offset, result_len - l.offset,
                                       MsgMarkerOpen \o FmtD(found_count - l.listed)
                                       \o MsgMarkerClose).buf,
                     listed |-> l.listed]
               ELSE [text |-> l.buf, listed |-> l.listed]

\* tools_i2c_scan_handler(input, result, result_len) with the pin
\* configuration cfg, the devices that acknowledge, the fault that occurs
\* and the driver as the call finds it.
tools_i2c_scan(input, result_len, cfg, devices, fault, drv) ==
    LET sda_pin == valueint(input.sda_pin)
        scl_pin == valueint(input.scl_pin)
        frequency_hz == IF input.frequency_hz.type = "absent"
                        THEN I2C_SCAN_DEFAULT_FREQ_HZ
                        ELSE valueint(input.frequency_hz)
        ret(exit, ok, d, msg, found, listed) ==
            [exit |-> exit, ok |-> ok, drv |-> d,
             result |-> snprintf(<<>>, 0, result_len, msg).buf,
             found |-> found, listed |-> listed]
        sda_check == validate_scan_pin(<<"S", "D", "A">>, sda_pin, cfg)
        scl_check == validate_scan_pin(<<"S", "C", "L">>, scl_pin, cfg)
        cleared == i2c_driver_delete(drv)
        configured == i2c_param_config(cleared)
        installed == i2c_driver_install(configured, fault.at # "install")
        probed == scan_probe(I2C_SCAN_ADDR_FIRST, I2C_SCAN_ADDR_LAST,
                             [drv |-> installed, found |-> <<>>, no_mem |-> FALSE],
                             devices, fault)
        text == scan_format(probed.found, sda_pin, scl_pin, frequency_hz, result_len)
    IN IF ~cJSON_IsNumber(input.sda_pin)
       THEN ret("sda_required", FALSE, drv, MsgSdaRequired, <<>>, 0)
       ELSE IF ~cJSON_IsNumber(input.scl_pin)
       THEN ret("scl_required", FALSE, drv, MsgSclRequired, <<>>, 0)
       ELSE IF input.frequency_hz.type # "absent" /\ ~cJSON_IsNumber(input.frequency_hz)
       THEN ret("freq_not_number", FALSE, drv, MsgFreqNotNumber, <<>>, 0)
       ELSE IF sda_pin = scl_pin
       THEN ret("same_pins", FALSE, drv, MsgSamePins, <<>>, 0)
       ELSE IF ~sda_check.ok
       THEN ret("sda_not_allowed", FALSE, drv, sda_check.msg, <<>>, 0)
       ELSE IF ~scl_check.ok
       THEN ret("scl_not_allowed", FALSE, drv, scl_check.msg, <<>>, 0)
       ELSE IF frequency_hz < I2C_SCAN_MIN_FREQ_HZ \/ frequency_hz > I2C_SCAN_MAX_FREQ_HZ
       THEN ret("freq_range", FALSE, drv,
                MsgFreqMustBe \o FmtD(I2C_SCAN_MIN_FREQ_HZ) \o <<"-">>
                \o FmtD(I2C_SCAN_MAX_FREQ_HZ), <<>>, 0)
       ELSE IF fault.at = "param_config"
       THEN ret("param_config", FALSE, configured, MsgParamConfig, <<>>, 0)
       ELSE IF fault.at = "install"
       THEN ret("install", FALSE, installed, MsgInstall, <<>>, 0)
       ELSE IF probed.no_mem
       THEN ret("no_mem", FALSE, probed.drv, MsgNoMem, probed.found, 0)
       ELSE [exit |-> "done", ok |-> TRUE, drv |-> i2c_driver_delete(probed.drv),
             result |-> text.text, found |-> probed.found, listed |-> text.listed]

\* The calls explored: every shape of input object on a 512-byte result
\* buffer; every driver fault with a valid input; every number of devices
\* on a 512-byte buffer, and a few devices on every shorter buffer.
PinJsons == {JsonAbsent, JsonString, JsonNumber(0), JsonNumber(8), JsonNumber(9),
             JsonNumber(10), JsonNumber(12)}

FreqJsons == {JsonAbsent, JsonString, JsonNumber(2 * I2C_SCAN_MIN_FREQ_HZ - 1),
              JsonNumber(2 * I2C_SCAN_MIN_FREQ_HZ),
              JsonNumber(2 * I2C_SCAN_MAX_FREQ_HZ),
              JsonNumber(2 * I2C_SCAN_MAX_FREQ_HZ + 1),
              JsonNumber(2 * I2C_SCAN_MAX_FREQ_HZ + 2)}

ScanInput(sda, scl, freq) == [sda_pin |-> sda, scl_pin |-> scl, frequency_hz |-> freq]

ValidScanInput == ScanInput(JsonNumber(8), JsonNumber(10), JsonAbsent)

ScanCall(input, result_len, devices, fault) ==
    [input |-> input, result_len |-> result_len, devices |-> devices, fault |-> fault]

FirstDevices(n) == I2C_SCAN_ADDR_FIRST .. Min(I2C_SCAN_ADDR_FIRST + n - 1, I2C_SCAN_ADDR_LAST)

ScanFaults ==
    {NoFault, ScanFault("param_config", 0), ScanFault("install", 0)}
    \cup {ScanFault("link", a) : a \in {I2C_SCAN_ADDR_FIRST, 60, I2C_SCAN_ADDR_LAST}}

ScanCalls ==
    {ScanCall(ScanInput(sda, scl, freq), TOOL_RESULT_LEN, {60}, NoFault) :
         sda \in PinJsons, scl \in PinJsons, freq \in FreqJsons}
    \cup {ScanCall(ValidScanInput, TOOL_RESULT_LEN, d, f) :
              d \in {{}, {60}, {I2C_SCAN_ADDR_FIRST, 60, I2C_SCAN_ADDR_LAST}},
              f \in ScanFaults}
    \cup {ScanCall(ValidScanInput, TOOL_RESULT_LEN, FirstDevices(n), NoFault) :
              n \in 0..MaxDevices}
    \cup {ScanCall(ValidScanInput, len, FirstDevices(n), NoFault) :
              n \in 0..FewDevices, len \in 1..MaxResultLen}

\* No call of the handler is in progress and no result is waiting.
NoScan == [exit |-> "none"]

NoToolRet == [op |-> "none"]

\* The agent calls the i2c_scan tool.
tools_i2c_scan_handler ==
    /\ scan = NoScan
    /\ tool_ret = NoToolRet
    /\ \E c \in ScanCalls :
         LET r == tools_i2c_scan(c.input, c.result_len, gpio_cfg, c.devices, c.fault,
                                 DriverAt(i2c_installed))
         IN /\ scan' = [exit |-> r.exit, call |-> c, ok |-> r.ok, result |-> r.result,
                        found |-> r.found, listed |-> r.listed, calls |-> r.drv.calls]
            /\ i2c_installed' = r.drv.installed
            /\ i2c_links' = i2c_links + r.drv.created - r.drv.deleted
    /\ UNCHANGED gpio_cfg
    /\ UNCHANGED tool_vars
    /\ UNCHANGED send_vars
    /\ UNCHANGED tg_vars
    /\ UNCHANGED sys_vars

----------------------------------------------------------------------------
(* User tools (tools_create_tool_handler, tools_delete_user_tool_handler) *)

Lower == {"a", "b", "c", "d", "e", "f", "g", "h", "i", "j", "k", "l", "m",
          "n", "o", "p", "q", "r", "s", "t", "u", "v", "w", "x", "y", "z"}

Upper == {"A", "B", "C", "D", "E", "F", "G", "H", "I", "J", "K", "L", "M",
          "N", "O", "P", "Q", "R", "S", "T", "U", "V", "W", "X", "Y", "Z"}

DecDigits == {"0", "1", "2", "3", "4", "5", "6", "7", "8", "9"}

\* A string member of the input object.
JsonText(str) == [type |-> "string", halves |-> 0, str |-> str]

cJSON_IsString(item) == item.type = "string"

\* A string of n characters c.
Rep(c, n) == [i \in 1..n |-> c]

\* Names of built-in tools (the static table of the registry).
BuiltinTools == {<<"g", "e", "t", "_", "v", "e", "r", "s", "i", "o", "n">>,
                 <<"i", "2", "c", "_", "s", "c", "a", "n">>}

\* Faulty variant: the characters of the name are not looked at.
name_chars_ok_lax(name) == TRUE

\* The validation loop of tools_create_tool_handler.
name_chars_ok(name) ==
    \A i \in 1..Len(name) :
       name[i] \in Lower \cup Upper \cup DecDigits \cup {"_"}

ToolNames(table) == {table[i].name : i \in 1..Len(table)}

\* user_tools_create(name, description, action): the table afterwards, and
\* whether the tool was created.
user_tools_create(table, name, description, action) ==
    IF Len(name) < 1 \/ Len(name) > USER_TOOL_NAME_MAX
    THEN [ok |-> FALSE, table |-> table]
    ELSE IF name \in ToolNames(table) \cup BuiltinTools
    THEN [ok |-> FALSE, table |-> table]
    ELSE IF Len(table) >= MaxUserTools
    THEN [ok |-> FALSE, table |-> table]
    ELSE [ok |-> TRUE,
          table |-> Append(table, [name |-> name, description |-> description,
                                   action |-> action])]

\* user_tools_delete(name): the table afterwards, and whether a user tool
\* of that name existed.
user_tools_delete(table, name) ==
    IF name \in ToolNames(table)
    THEN [ok |-> TRUE, table |-> SelectSeq(table, LAMBDA t : t.name # name)]
    ELSE [ok |-> FALSE, table |-> table]

\* tools_create_tool_handler(input, result, result_len): return value, the
\* message left in result and the table afterwards.  Members of the input
\* object other than name, description and action are not read.
tools_create_tool(input, table) ==
    IF ~cJSON_IsString(input.name)
    THEN [ok |-> FALSE, result |-> "Error: 'name' required", table |-> table]
    ELSE IF ~cJSON_IsString(input.description)
    THEN [ok |-> FALSE, result |-> "Error: 'description' required", table |-> table]
    ELSE IF ~cJSON_IsString(input.action)
    THEN [ok |-> FALSE, result |-> "Error: 'action' required", table |-> table]
    ELSE IF ~name_chars_ok(input.name.str)
    THEN [ok |-> FALSE, result |-> "Error: name must be alphanumeric/underscore",
          table |-> table]
    ELSE LET r == user_tools_create(table, input.name.str, input.description.str,
                                    input.action.str)
         IN IF r.ok
            THEN [ok |-> TRUE, result |-> "Created tool", table |-> r.table]
            ELSE [ok |-> FALSE,
                  result |-> "Error: failed to create tool (duplicate or limit reached)",
                  table |-> r.table]

\* tools_delete_user_tool_handler(input, result, result_len).
tools_delete_user_tool(input, table) ==
    IF ~cJSON_IsString(input.name)
    THEN [ok |-> FALSE, result |-> "Error: 'name' required", table |-> table]
    ELSE LET r == user_tools_delete(table, input.name.str)
         IN IF r.ok
            THEN [ok |-> TRUE, result |-> "Deleted tool", table |-> r.table]
            ELSE [ok |-> TRUE, result |-> "Tool not found", table |-> r.table]

\* The input objects explored.
NameJsons ==
    {JsonAbsent, JsonNumber(2)}
    \cup {JsonText(n) : n \in {<<>>, <<"a">>, <<"b", "_", "9", "Z">>, <<"a", " ">>,
                               <<"a", "-", "b">>, <<"[">>, <<"{">>,
                               <<"@">>, <<"/">>, <<":">>,
                               Rep("a", USER_TOOL_NAME_MAX),
                               Rep("a", USER_TOOL_NAME_MAX + 1)}
                              \cup BuiltinTools}

TextJsons == {JsonAbsent, JsonNumber(2), JsonText(<<"x">>), JsonText(<<"y">>)}

ReplaceJsons == {JsonAbsent, [type |-> "true", halves |-> 0]}

\* The agent calls the create_tool tool.
tools_create_tool_handler ==
    /\ scan = NoScan
    /\ tool_ret = NoToolRet
    /\ \E name \in NameJsons, description \in TextJsons, action \in TextJsons,
          replace \in ReplaceJsons :
         LET input == [name |-> name, description |-> description,
                       action |-> action, replace |-> replace]
             r == tools_create_tool(input, user_tools)
         IN /\ user_tools' = r.table
            /\ tool_ret' = [op |-> "create", input |-> input, ok |-> r.ok,
                            result |-> r.result, before |-> user_tools]
    /\ UNCHANGED i2c_vars
    /\ UNCHANGED send_vars
    /\ UNCHANGED tg_vars
    /\ UNCHANGED sys_vars

\* The agent calls the delete_user_tool tool.
tools_delete_user_tool_handler ==
    /\ scan = NoScan
    /\ tool_ret = NoToolRet
    /\ \E name \in NameJsons :
         LET input == [name |-> name]
             r == tools_delete_user_tool(input, user_tools)
         IN /\ user_tools' = r.table
            /\ tool_ret' = [op |-> "delete", input |-> input, ok |-> r.ok,
                            result |-> r.result, before |-> user_tools]
    /\ UNCHANGED i2c_vars
    /\ UNCHANGED send_vars
    /\ UNCHANGED tg_vars
    /\ UNCHANGED sys_vars

----------------------------------------------------------------------------
(* The chat API (Telegram Bot API getUpdates) *)

ChatIds == {Exact, Exact + 1}

\* An update: no message, a message without text, or a text message.
\* big: the update's JSON alone is longer than the 4 KB response buffer.
UpdateShapes ==
    {[msg |-> "none", chat |-> 0, big |-> FALSE],
     [msg |-> "notext", chat |-> Exact, big |-> FALSE],
     [msg |-> "text", chat |-> Exact, big |-> TRUE]}
    \cup {[msg |-> "text", chat |-> c, big |-> FALSE] : c \in ChatIds}

MkUpdate(id, shape) ==
    [id |-> id, msg |-> shape.msg, chat |-> shape.chat, big |-> shape.big]

\* The text a message carries, named after its update.
TextOf(u) == u.id

\* The decimal offset parameter as the server reads it from the URL.
UrlOffsetValue(str) == strtoll(str).value

\* getUpdates(offset, limit).  offset >= 0: every update with a lower id is
\* confirmed (forgotten) and the first `limit` remaining ones are returned.
\* offset < 0: the last -offset updates are returned; whether the earlier
\* ones are forgotten is left open (forget).
ServerGetUpdates(pend, offset, limit, forget) ==
    IF offset < 0
    THEN LET n == Len(pend)
             first == IF n > -offset THEN n + offset + 1 ELSE 1
             tail == SubSeq(pend, first, n)
         IN [result |-> Take(tail, limit),
             pending |-> IF forget THEN tail ELSE pend]
    ELSE LET keep == SelectSeq(pend, LAMBDA u : u.id >= offset)
         IN [result |-> Take(keep, limit), pending |-> keep]

\* What esp_http_client_perform can make of one getUpdates request.
\*   no_client    esp_http_client_init returned NULL
\*   transport    the request never reached the server
\*   lost         the server answered, the transfer then failed
\*   status       an HTTP status other than 200
\*   garbage      200 with a body that is not JSON
\*   garbage_big  the same, longer than the response buffer
\*   not_ok       200 with "ok": false
\*   no_result    200 with "ok": true and no result array
\*   answer       200 with the server's result
HttpKinds == {"no_client", "transport", "lost", "status", "garbage",
              "garbage_big", "not_ok", "no_result", "answer"}

\* Without a token the URL names no bot and the API cannot answer 200.
KindsFor(token) == IF token THEN HttpKinds ELSE {"no_client", "transport", "status"}

\* http_event_handler: body bytes are appended to the 4 KB buffer of the
\* context; update_id is the first member of an update, so the partial
\* buffer shows the ids up to and including the first oversize update.
RECURSIVE VisibleIds(_)
VisibleIds(ups) ==
    IF ups = <<>> THEN {}
    ELSE IF Head(ups).big THEN {Head(ups).id}
    ELSE {Head(ups).id} \cup VisibleIds(Tail(ups))

http_event_handler(kind, ups) ==
    [truncated |-> kind = "garbage_big" \/ \E i \in DOMAIN ups : ups[i].big,
     visible |-> VisibleIds(ups)]

\* One HTTP exchange: the response context left to the caller and the
\* server's pending list afterwards.
HttpExchange(kind, pend, offset, limit, forget) ==
    LET srv == ServerGetUpdates(pend, offset, limit, forget)
        reached == kind \in {"answer", "lost"}
        ups == IF reached THEN srv.result ELSE <<>>
        ctx == http_event_handler(kind, ups)
    IN [http |-> [kind |-> kind,
                  err_ok |-> kind \notin {"no_client", "transport", "lost"},
                  status |-> IF kind \in {"no_client", "transport", "lost"} THEN -1
                             ELSE IF kind = "status" THEN 502 ELSE 200,
                  updates |-> ups,
                  truncated |-> ctx.truncated,
                  visible |-> ctx.visible],
        pending |-> IF reached THEN srv.pending ELSE pend]

NoHttp == [kind |-> "none", err_ok |-> FALSE, status |-> 0, updates |-> <<>>,
           truncated |-> FALSE, visible |-> {}]

----------------------------------------------------------------------------
(* telegram.c *)

\* Highest update_id readable in a partial response buffer.
telegram_extract_max_update_id(visible) ==
    IF visible = {} THEN [found |-> FALSE, id |-> 0]
    ELSE [found |-> TRUE, id |-> SetMax(visible)]

\* Loop of get_backoff_delay_ms.
RECURSIVE backoff_loop(_, _, _)
backoff_loop(i, n, delay) ==
    IF i < n /\ delay < BACKOFF_MAX_MS
    THEN backoff_loop(i + 1, n, delay * BACKOFF_MULTIPLIER)
    ELSE delay

\* Faulty variant: the delay is not capped at BACKOFF_MAX_MS.
get_backoff_delay_ms_uncapped(n) ==
    IF n = 0 THEN 0 ELSE backoff_loop(1, n, BACKOFF_BASE_MS)

\* The values the variable delay of get_backoff_delay_ms takes in its loop
\* after the initial BACKOFF_BASE_MS.
RECURSIVE backoff_loop_values(_, _, _)
backoff_loop_values(i, n, delay) ==
    IF i < n /\ delay < BACKOFF_MAX_MS
    THEN {delay * BACKOFF_MULTIPLIER}
         \cup backoff_loop_values(i + 1, n, delay * BACKOFF_MULTIPLIER)
    ELSE {}

\* Faulty variant: no special case for a failure count of 0.
get_backoff_delay_ms_no_zero(n) ==
    LET delay == backoff_loop(1, n, BACKOFF_BASE_MS)
    IN IF delay > BACKOFF_MAX_MS THEN BACKOFF_MAX_MS ELSE delay

get_backoff_delay_ms(n) ==
    IF n = 0 THEN 0
    ELSE LET delay == backoff_loop(1, n, BACKOFF_BASE_MS)
         IN IF delay > BACKOFF_MAX_MS THEN BACKOFF_MAX_MS ELSE delay

\* The request telegram_poll builds: URL parameters and client timeout.
\* Faulty variant: the offset repeats the last-seen id instead of following it.
poll_request_stale(last) ==
    [offset |-> i64_to_str(last, OFF_BUF_SIZE),
     limit |-> POLL_LIMIT,
     timeout |-> TELEGRAM_POLL_TIMEOUT,
     timeout_ms |-> (TELEGRAM_POLL_TIMEOUT + POLL_TIMEOUT_MARGIN_S) * 1000]

poll_request(last) ==
    [offset |-> i64_to_str(last + 1, OFF_BUF_SIZE),
     limit |-> POLL_LIMIT,
     timeout |-> TELEGRAM_POLL_TIMEOUT,
     timeout_ms |-> (TELEGRAM_POLL_TIMEOUT + POLL_TIMEOUT_MARGIN_S) * 1000]

NoReq == [offset |-> <<>>, limit |-> 0, timeout |-> 0, timeout_ms |-> 0]

\* Faulty variant: with no chat authorised every text message is accepted.
update_accepted_open(u, chat_id) ==
    /\ u.msg = "text"
    /\ LET incoming_chat_id == json_number_to_int64(u.chat)
       IN ~(chat_id # 0 /\ incoming_chat_id # chat_id)

\* Authentication of one update of the result array.
update_accepted(u, chat_id) ==
    /\ u.msg = "text"
    /\ LET incoming_chat_id == json_number_to_int64(u.chat)
       IN ~(chat_id # 0 /\ incoming_chat_id # chat_id) /\ ~(chat_id = 0)

\* xQueueSend(s_input_queue, &msg, 100 ms): the message is dropped when the
\* queue stays full.
queue_send(st, u) ==
    IF Len(st.queue) < InputQueueCap
    THEN [st EXCEPT !.queue = Append(@, [text |-> TextOf(u)]),
                    !.log = Append(@, [u |-> u, last |-> st.last])]
    ELSE st

\* cJSON_ArrayForEach(update, result) of telegram_poll.
RECURSIVE process_updates(_, _, _)
process_updates(st, ups, chat_id) ==
    IF ups = <<>> THEN st
    ELSE LET u == Head(ups)
             st1 == [st EXCEPT !.last = json_number_to_int64(u.id)]
             st2 == IF update_accepted(u, chat_id) THEN queue_send(st1, u) ELSE st1
         IN process_updates(st2, Tail(ups), chat_id)

\* Faulty variant: the recovered id is stored before it is known to exist.
poll_truncated_unchecked(st, visible) ==
    LET rec == telegram_extract_max_update_id(visible)
    IN IF rec.found
       THEN [st EXCEPT !.last = rec.id, !.err = "ESP_OK", !.path = "recovered"]
       ELSE [st EXCEPT !.last = rec.id, !.err = "ESP_FAIL", !.path = "truncated"]

\* Truncated response: skip to the highest id of the partial buffer.
poll_truncated(st, visible) ==
    LET rec == telegram_extract_max_update_id(visible)
    IN IF rec.found
       THEN [st EXCEPT !.last = rec.id, !.err = "ESP_OK", !.path = "recovered"]
       ELSE [st EXCEPT !.err = "ESP_FAIL", !.path = "truncated"]

\* Faulty variant: the truncated flag is not looked at; the partial body goes to
\* the JSON parser, which rejects it.
telegram_poll_result_no_recovery(h, st, chat_id) ==
    IF ~h.err_ok \/ h.status # 200
    THEN [st EXCEPT !.err = "ESP_FAIL", !.path = "http"]
    ELSE IF h.truncated \/ h.kind = "garbage"
    THEN [st EXCEPT !.err = "ESP_FAIL", !.path = "parse"]
    ELSE IF h.kind = "not_ok" THEN [st EXCEPT !.err = "ESP_FAIL", !.path = "not_ok"]
    ELSE IF h.kind = "no_result" THEN [st EXCEPT !.err = "ESP_OK", !.path = "no_result"]
    ELSE [process_updates(st, h.updates, chat_id) EXCEPT !.err = "ESP_OK",
                                                         !.path = "processed"]

\* Faulty variant: a failed transfer still skips to the highest update id
\* its partial body shows.
telegram_poll_result_fail_skips(h, st, chat_id) ==
    IF ~h.err_ok \/ h.status # 200
    THEN [st EXCEPT !.last = IF h.visible = {} THEN st.last ELSE SetMax(h.visible),
                    !.err = "ESP_FAIL", !.path = "http"]
    ELSE IF h.truncated THEN poll_truncated(st, h.visible)
    ELSE IF h.kind = "garbage" THEN [st EXCEPT !.err = "ESP_FAIL", !.path = "parse"]
    ELSE IF h.kind = "not_ok" THEN [st EXCEPT !.err = "ESP_FAIL", !.path = "not_ok"]
    ELSE IF h.kind = "no_result" THEN [st EXCEPT !.err = "ESP_OK", !.path = "no_result"]
    ELSE [process_updates(st, h.updates, chat_id) EXCEPT !.err = "ESP_OK",
                                                         !.path = "processed"]

\* telegram_poll from the return of esp_http_client_perform on.
\* st = [last, queue, log, err, path].
telegram_poll_result(h, st, chat_id) ==
    IF ~h.err_ok \/ h.status # 200
    THEN [st EXCEPT !.err = "ESP_FAIL", !.path = "http"]
    ELSE IF h.truncated THEN poll_truncated(st, h.visible)
    ELSE IF h.kind = "garbage" THEN [st EXCEPT !.err = "ESP_FAIL", !.path = "parse"]
    ELSE IF h.kind = "not_ok" THEN [st EXCEPT !.err = "ESP_FAIL", !.path = "not_ok"]
    ELSE IF h.kind = "no_result" THEN [st EXCEPT !.err = "ESP_OK", !.path = "no_result"]
    ELSE [process_updates(st, h.updates, chat_id) EXCEPT !.err = "ESP_OK",
                                                         !.path = "processed"]

\* Faulty variant: a successful poll does not reset the failure counter.
poll_task_account_no_reset(err, failures) ==
    IF err # "ESP_OK"
    THEN [failures |-> failures + 1, delay |-> get_backoff_delay_ms(failures + 1)]
    ELSE [failures |-> failures, delay |-> 0]

\* telegram_poll_task: bookkeeping after telegram_poll returned err.
poll_task_account(err, failures) ==
    IF err # "ESP_OK"
    THEN [failures |-> failures + 1, delay |-> get_backoff_delay_ms(failures + 1)]
    ELSE [failures |-> IF failures > 0 THEN 0 ELSE failures, delay |-> 0]

\* Faulty variant: the poll task leaves its loop after MaxFailures failures
\* in a row.
poll_task_loop_gives_up(failures) == failures < MaxFailures

\* telegram_poll_task: while (1), whatever the failure count.
poll_task_loop(failures) == TRUE

\* telegram_get_updates_raw: HTTP status, or -1.
telegram_get_updates_raw(h) == IF h.err_ok THEN h.status ELSE -1

\* telegram_flush_pending, parsing of step 1: update_id of result[0], or 0.
flush_parse_last_id(h) ==
    IF h.truncated \/ h.kind \in {"garbage", "not_ok", "no_result"} THEN 0
    ELSE IF h.updates = <<>> THEN 0
    ELSE json_number_to_int64(h.updates[1].id)

\* Faulty variant: step 2 runs even when step 1 found no update id.
flush_never_returns_early(last_id) == FALSE

\* telegram_flush_pending returns after step 1 when no update id was found.
flush_returns_early(last_id) == last_id = 0

\* telegram_flush_pending step 1 (offset=-1&limit=1): the local last_id
\* (0: the function returns), the server afterwards and the response context.
flush_step1(pend, alloc_ok, kind, forget) ==
    IF ~alloc_ok THEN [last_id |-> 0, pending |-> pend, http |-> NoHttp]
    ELSE LET x == HttpExchange(kind, pend, UrlOffsetValue(<<"-", "1">>), 1, forget)
         IN [last_id |-> IF telegram_get_updates_raw(x.http) # 200 THEN 0
                         ELSE flush_parse_last_id(x.http),
             pending |-> x.pending,
             http |-> x.http]

\* telegram_flush_pending step 2 (offset=last_id+1): s_last_update_id and
\* the server afterwards.
flush_step2(last, pend, last_id, alloc_ok, kind) ==
    IF ~alloc_ok THEN [last |-> last, pending |-> pend]
    ELSE LET off == i64_to_str(last_id + 1, OFF_BUF_SIZE)
             x == HttpExchange(kind, pend, UrlOffsetValue(off), 1, FALSE)
         IN [last |-> last_id, pending |-> x.pending]

----------------------------------------------------------------------------
(* Rate limiter (ratelimit.c) *)

RATELIMIT_MAX_PER_HOUR == 30
RATELIMIT_MAX_PER_DAY == 200
RATELIMIT_UNSYNCED_DIVISOR == 4
SECONDS_PER_HOUR == 3600
SECONDS_PER_DAY == 86400

HourStart(t) == t - (t % SECONDS_PER_HOUR)

DayStart(t) == t - (t % SECONDS_PER_DAY)

RateZero(t) ==
    [hour_count |-> 0, day_count |-> 0, hour_start |-> HourStart(t),
     day_start |-> DayStart(t)]

\* A counter whose window has passed is reset before the admission check;
\* windows start on the wall-clock hour and day.
ratelimit_roll(rl, t) ==
    [hour_count |-> IF t - rl.hour_start >= SECONDS_PER_HOUR THEN 0 ELSE rl.hour_count,
     hour_start |-> HourStart(t),
     day_count |-> IF t - rl.day_start >= SECONDS_PER_DAY THEN 0 ELSE rl.day_count,
     day_start |-> DayStart(t)]

\* Faulty variant: a counter standing at its cap still admits.
ratelimit_at_cap_lax(count, cap) == count > cap

ratelimit_at_cap(count, cap) == count >= cap

\* A quarter of the cap while the clock has never been synced.
ratelimit_cap(cap, synced) == IF synced THEN cap ELSE cap \div RATELIMIT_UNSYNCED_DIVISOR

\* admit(): Deny when the hour or the day counter stands at its cap,
\* otherwise both counters are incremented.
ratelimit_admit(rl, t, synced) ==
    LET r == ratelimit_roll(rl, t)
    IN IF ratelimit_at_cap(r.hour_count, ratelimit_cap(RATELIMIT_MAX_PER_HOUR, synced))
       THEN [rl |-> r, result |-> "Deny", reason |-> "hour"]
       ELSE IF ratelimit_at_cap(r.day_count, ratelimit_cap(RATELIMIT_MAX_PER_DAY, synced))
       THEN [rl |-> r, result |-> "Deny", reason |-> "day"]
       ELSE [rl |-> [r EXCEPT !.hour_count = @ + 1, !.day_count = @ + 1],
             result |-> "Allow", reason |-> "none"]

NoAdmit == [result |-> "none", reason |-> "none", t |-> 0, synced |-> FALSE,
            prev |-> "none", prev_t |-> 0]

\* The record of a call of admit at time t, and the admissions granted in
\* the wall-clock hour and day of that call, counted from the clock alone.
AdmitRecord(a, t, synced, last) ==
    [result |-> a.result, reason |-> a.reason, t |-> t, synced |-> synced,
     prev |-> IF last.result = "Deny" THEN last.reason ELSE last.result,
     prev_t |-> last.t]

AllowedInHour(a, t, last, allowed) ==
    (IF last.result # "none" /\ HourStart(last.t) = HourStart(t) THEN allowed ELSE 0)
    + (IF a.result = "Allow" THEN 1 ELSE 0)

AllowedInDay(a, t, last, allowed) ==
    (IF last.result # "none" /\ DayStart(last.t) = DayStart(t) THEN allowed ELSE 0)
    + (IF a.result = "Allow" THEN 1 ELSE 0)

----------------------------------------------------------------------------
(* Agent loop (agent.c) *)

MAX_TOOL_ITERATIONS == 5
MAX_HISTORY_TURNS == 12
LLM_MAX_RETRIES == 3

Origins == {"Local", "Chat", "Schedule"}

MsgQuota == "Quota reached"
MsgLlmUnavailable == "LLM unavailable"
MsgIterationLimit == "Reached iteration limit; stopping."
MsgAssistantText == "AssistantText"

\* Replies of the LLM transport: final text, a tool call, an error that is
\* retried (Transport, RateLimitedByVendor) or one that is not (Auth,
\* InvalidResponse, Truncated).
LlmReplies ==
    {"AssistantText", "ToolCall", "Transport", "RateLimitedByVendor", "Auth",
     "InvalidResponse", "Truncated"}

llm_error_is_transient(reply) == reply \in {"Transport", "RateLimitedByVendor"}

NoMsg == [origin |-> "none", n |-> 0]

Turn(role, msg, seq) == [role |-> role, msg |-> msg.n, seq |-> seq]

\* Faulty variant: a full history gives up its newest turn.
history_append_newest_out(h, turn) ==
    IF Len(h) >= MAX_HISTORY_TURNS
    THEN Append(SubSeq(h, 1, Len(h) - 1), turn)
    ELSE Append(h, turn)

\* The rolling history: a full buffer gives up its oldest turn.
history_append(h, turn) ==
    IF Len(h) >= MAX_HISTORY_TURNS THEN Append(Tail(h), turn) ELSE Append(h, turn)

\* Faulty variant: the final text goes out once per output channel entry, twice.
agent_emit_twice(log, msg, text) ==
    Append(Append(log, [msg |-> msg.n, text |-> text]), [msg |-> msg.n, text |-> text])

\* The final text of a turn is handed to the output channels.
agent_emit(log, msg, text) == Append(log, [msg |-> msg.n, text |-> text])

\* Faulty variant: the agent takes a message whatever it is doing.
agent_ready_always(state) == TRUE

agent_ready(state) == state = "Idle"

\* Faulty variant: the loop runs one iteration too many.
agent_loop_exhausted_late(n) == n > MAX_TOOL_ITERATIONS

agent_loop_exhausted(n) == n >= MAX_TOOL_ITERATIONS

agent_idle_vars == <<send_vars, i2c_vars, tool_vars>>

agent_tg_vars == <<nvs, init_ret, pc, s_bot_token, s_chat_id, s_last_update_id,
                   s_consecutive_failures, flush_last_id, flush_runs, flush_first,
                   polled, pending, next_id, preboot, enq_log, req, http, poll_err,
                   poll_path, prev, delay_ms>>

\* A message from the local channel, the chat poller or the scheduler is
\* put on the input queue, or dropped when the queue is full.
message_arrive ==
    /\ arrived < MaxMessages
    /\ \E origin \in Origins :
          /\ arrived' = arrived + 1
          /\ input_queue' = IF Len(input_queue) < InputQueueCap
                            THEN Append(input_queue, [origin |-> origin, n |-> arrived + 1])
                            ELSE input_queue
    /\ UNCHANGED <<agent_state, agent_msg, agent_out, history, appended, iterations,
                   retries, llm_calls, emitted, tool_log, open_turns>>
    /\ UNCHANGED <<clock_vars, rate_vars, cron_vars, boot_vars, start_vars, fn_vars, agent_idle_vars, agent_tg_vars>>

\* Idle -> Admitting: the agent takes the next message from the input queue.
agent_take ==
    /\ agent_ready(agent_state)
    /\ input_queue # <<>>
    /\ agent_msg' = Head(input_queue)
    /\ input_queue' = Tail(input_queue)
    /\ agent_state' = "Admitting"
    /\ open_turns' = open_turns \cup {Head(input_queue).n}
    /\ UNCHANGED <<agent_out, iterations, retries, llm_calls, history, appended,
                   emitted, tool_log, arrived>>
    /\ UNCHANGED <<clock_vars, rate_vars, cron_vars, boot_vars, start_vars, fn_vars, agent_idle_vars, agent_tg_vars>>

\* Steps 1 and 2: admit via the rate limiter; on deny the explanation is
\* the reply, otherwise the user turn is appended to the history.
agent_admit ==
    /\ agent_state = "Admitting"
    /\ LET a == ratelimit_admit(ratelimit, now, time_synced)
       IN /\ ratelimit' = a.rl
          /\ admit_ret' = AdmitRecord(a, now, time_synced, admit_ret)
          /\ hour_allowed' = AllowedInHour(a, now, admit_ret, hour_allowed)
          /\ day_allowed' = AllowedInDay(a, now, admit_ret, day_allowed)
          /\ IF a.result = "Deny"
             THEN /\ agent_state' = "Responding"
                  /\ agent_out' = MsgQuota
                  /\ UNCHANGED <<history, appended>>
             ELSE /\ agent_state' = "Thinking"
                  /\ history' = history_append(history, Turn("User", agent_msg, appended + 1))
                  /\ appended' = appended + 1
                  /\ UNCHANGED agent_out
    /\ UNCHANGED <<agent_msg, iterations, retries, llm_calls, emitted, tool_log,
                   open_turns, arrived, input_queue>>
    /\ UNCHANGED <<clock_vars, cron_vars, boot_vars, start_vars, fn_vars, agent_idle_vars, agent_tg_vars>>

\* Step 3 a-c, e: one call of the LLM transport and what the agent does with
\* the reply.
agent_llm ==
    /\ agent_state = "Thinking"
    /\ \E reply \in LlmReplies :
          /\ llm_calls' = llm_calls + 1
          /\ IF reply = "AssistantText"
             THEN /\ history' = history_append(history,
                                               Turn("Assistant", agent_msg, appended + 1))
                  /\ appended' = appended + 1
                  /\ agent_out' = MsgAssistantText
                  /\ agent_state' = "Responding"
                  /\ UNCHANGED retries
             ELSE IF reply = "ToolCall"
             THEN /\ agent_state' = "ToolExecuting"
                  /\ UNCHANGED <<history, appended, agent_out, retries>>
             ELSE IF llm_error_is_transient(reply) /\ retries < LLM_MAX_RETRIES
             THEN /\ retries' = retries + 1
                  /\ UNCHANGED <<history, appended, agent_out, agent_state>>
             ELSE /\ agent_out' = MsgLlmUnavailable
                  /\ agent_state' = "Responding"
                  /\ UNCHANGED <<history, appended, retries>>
    /\ UNCHANGED <<agent_msg, iterations, emitted, tool_log, open_turns, arrived,
                   input_queue>>
    /\ UNCHANGED <<clock_vars, rate_vars, cron_vars, boot_vars, start_vars, fn_vars, agent_idle_vars, agent_tg_vars>>

\* Step 3 d and step 4: the tool handler runs, its result becomes a Tool
\* turn, and the loop goes on or, exhausted, ends with the limit text as
\* the final assistant turn.
agent_tool ==
    /\ agent_state = "ToolExecuting"
    /\ tool_log' = Append(tool_log, agent_msg)
    /\ iterations' = iterations + 1
    /\ retries' = 0
    /\ LET with_tool == history_append(history, Turn("Tool", agent_msg, appended + 1))
       IN IF agent_loop_exhausted(iterations + 1)
          THEN /\ history' = history_append(with_tool,
                                            Turn("Assistant", agent_msg, appended + 2))
               /\ appended' = appended + 2
               /\ agent_out' = MsgIterationLimit
               /\ agent_state' = "Responding"
          ELSE /\ history' = with_tool
               /\ appended' = appended + 1
               /\ agent_state' = "Thinking"
               /\ UNCHANGED agent_out
    /\ UNCHANGED <<agent_msg, llm_calls, emitted, open_turns, arrived, input_queue>>
    /\ UNCHANGED <<clock_vars, rate_vars, cron_vars, boot_vars, start_vars, fn_vars, agent_idle_vars, agent_tg_vars>>

\* Responding -> Idle: the final text is emitted and the turn is over; the
\* locals of the turn are gone.
agent_respond ==
    /\ agent_state = "Responding"
    /\ emitted' = agent_emit(emitted, agent_msg, agent_out)
    /\ agent_state' = "Idle"
    /\ open_turns' = open_turns \ {agent_msg.n}
    /\ agent_msg' = NoMsg
    /\ agent_out' = "none"
    /\ iterations' = 0
    /\ retries' = 0
    /\ llm_calls' = 0
    /\ UNCHANGED <<history, appended, tool_log, arrived, input_queue>>
    /\ UNCHANGED <<clock_vars, rate_vars, cron_vars, boot_vars, start_vars, fn_vars, agent_idle_vars, agent_tg_vars>>

agent_step ==
    \/ agent_take
    \/ agent_admit
    \/ agent_llm
    \/ agent_tool
    \/ agent_respond

----------------------------------------------------------------------------
(* Supervisor: boot guard and safe mode (main.c) *)

MAX_BOOT_FAILURES == 3
BOOT_SUCCESS_DELAY_MS == 30000

\* Time in a boot passes in thirds of the success delay.
BootStep == BOOT_SUCCESS_DELAY_MS \div 3

NoBoot == [found |-> 0, prev_safe |-> FALSE, prev_uptime |-> 0, boots |-> 0]

NoServices == [channels |-> FALSE, llm |-> FALSE, scheduler |-> FALSE]

\* Faulty variant: the device needs two more failed boots to give up.
boot_guard_safe_mode_late(count) == count > MAX_BOOT_FAILURES + 1

\* Safe mode when the incremented counter has reached MAX_BOOT_FAILURES.
boot_guard_safe_mode(count) == count >= MAX_BOOT_FAILURES

boot_other_vars == <<clock_vars, rate_vars, agent_vars, cron_vars, start_vars, fn_vars,
                     send_vars, i2c_vars,
                     tool_vars, tg_vars>>

\* Power-on or restart: the counter in the store is incremented, safe mode
\* is decided, and the tasks are started: channels always, LLM and
\* scheduler unless in safe mode.
boot ==
    /\ ~running
    /\ boot_count < MaxBootCount
    /\ running' = TRUE
    /\ uptime_ms' = 0
    /\ boot_count' = boot_count + 1
    /\ safe_mode' = boot_guard_safe_mode(boot_count + 1)
    /\ services' = [channels |-> TRUE,
                    llm |-> ~boot_guard_safe_mode(boot_count + 1),
                    scheduler |-> ~boot_guard_safe_mode(boot_count + 1)]
    /\ boot_ret' = [found |-> boot_count, prev_safe |-> safe_mode,
                    prev_uptime |-> uptime_ms, boots |-> Min(boot_ret.boots + 1, 2)]
    /\ UNCHANGED boot_other_vars

\* The device keeps running; when BOOT_SUCCESS_DELAY_MS have passed since
\* the boot the counter is reset.
boot_uptime ==
    /\ running
    /\ uptime_ms < BOOT_SUCCESS_DELAY_MS + BootStep
    /\ uptime_ms' = uptime_ms + BootStep
    /\ boot_count' = IF uptime_ms < BOOT_SUCCESS_DELAY_MS
                        /\ uptime_ms + BootStep >= BOOT_SUCCESS_DELAY_MS
                     THEN 0 ELSE boot_count
    /\ UNCHANGED <<running, safe_mode, services, boot_ret>>
    /\ UNCHANGED boot_other_vars

\* A crash, a watchdog reset or a power cut ends the boot at any time.
boot_crash ==
    /\ running
    /\ running' = FALSE
    /\ services' = NoServices
    /\ UNCHANGED <<boot_count, uptime_ms, safe_mode, boot_ret>>
    /\ UNCHANGED boot_other_vars

----------------------------------------------------------------------------
(* State machine *)

IdBases == {1, Exact}

IdBase(n) == IF n < Exact THEN 1 ELSE Exact

\* Contents of the store at boot: a chat id alone, a token alone, a token
\* with a chat id string (a number, a number in white space, zero, a number
\* followed by another character).
NvsImages ==
    {[k \in {NVS_KEY_TG_CHAT_ID} |-> i64_to_str(Exact, OFF_BUF_SIZE)]}
    \cup {[k \in {NVS_KEY_TG_TOKEN} |-> <<"t">>]}
    \cup {[k \in {NVS_KEY_TG_TOKEN, NVS_KEY_TG_CHAT_ID} |->
              IF k = NVS_KEY_TG_TOKEN THEN <<"t">> ELSE str] :
          str \in {i64_to_str(Exact, OFF_BUF_SIZE),
                   <<" ">> \o i64_to_str(Exact + 1, OFF_BUF_SIZE) \o <<"\n">>,
                   i64_to_str(0, OFF_BUF_SIZE),
                   i64_to_str(Exact, OFF_BUF_SIZE) \o <<"x">>}}

NoPrev == [last |-> 0, failures |-> 0, log |-> 0]

\* The clock before any sync and the rate counter before any admission.
InitClock == now = 0 /\ time_synced = FALSE

InitRate ==
    /\ ratelimit = RateZero(0)
    /\ admit_ret = NoAdmit
    /\ hour_allowed = 0
    /\ day_allowed = 0

InitAgent ==
    /\ agent_state = "Idle"
    /\ agent_msg = NoMsg
    /\ agent_out = "none"
    /\ history = <<>>
    /\ appended = 0
    /\ iterations = 0
    /\ retries = 0
    /\ llm_calls = 0
    /\ emitted = <<>>
    /\ tool_log = <<>>
    /\ open_turns = {}
    /\ arrived = 0

\* No round of the scheduler yet.
NoTick == [at |-> 0, synced |-> FALSE, before |-> <<>>, sent |-> <<>>, dropped |-> {}]

InitCron ==
    /\ cron_jobs = <<>>
    /\ cron_nvs = <<>>
    /\ tick_ret = NoTick
    /\ fired_count = <<>>

\* The device before its first boot.
InitBoot ==
    /\ boot_count = 0
    /\ running = FALSE
    /\ uptime_ms = 0
    /\ safe_mode = FALSE
    /\ services = NoServices
    /\ boot_ret = NoBoot

\* telegram_start not called.
InitStart ==
    /\ start_pc = "idle"
    /\ start_ret = "none"
    /\ poll_task = "none"
    /\ send_task = "none"

\* No direct call yet.
NoCall == [fn |-> "none"]

InitFn == fn_call = NoCall /\ fn_ret = NoCall

InitSys == InitClock /\ InitRate /\ InitAgent /\ InitCron /\ InitBoot /\ InitStart /\ InitFn

InitChannel ==
    /\ pc = "init"
    /\ init_ret = "none"
    /\ s_bot_token = FALSE
    /\ s_chat_id = 0
    /\ s_last_update_id = 0
    /\ s_consecutive_failures = 0
    /\ flush_last_id = 0
    /\ flush_runs = 0
    /\ flush_first = 0
    /\ polled = FALSE
    /\ input_queue = <<>>
    /\ preboot = Ids(pending)
    /\ enq_log = <<>>
    /\ req = NoReq
    /\ http = NoHttp
    /\ poll_err = "none"
    /\ poll_path = "none"
    /\ prev = NoPrev
    /\ delay_ms = 0
    /\ output_queue = <<>>
    /\ next_reply = 1
    /\ taken = {}
    /\ posts = <<>>
    /\ chat_log = <<>>
    /\ i2c_installed = FALSE
    /\ i2c_links = 0
    /\ scan = NoScan
    /\ user_tools = <<>>
    /\ tool_ret = NoToolRet

InitDevice == InitChannel /\ InitSys

\* The chat API at boot: up to n updates pending, ids from one of the bases.
InitServer(n) ==
    \E base \in IdBases, k \in 0..n :
       \E shapes \in [1..k -> UpdateShapes] :
          /\ pending = [i \in 1..k |-> MkUpdate(base + i - 1, shapes[i])]
          /\ next_id = base + k

Init ==
    /\ nvs \in NvsImages
    /\ InitServer(MaxPreboot)
    /\ InitDevice
    /\ gpio_cfg = GpioRange

\* telegram_init: the token and the chat id are read from the store.
telegram_init_load(store, chat_id) ==
    IF NVS_KEY_TG_TOKEN \notin DOMAIN store
    THEN [token |-> FALSE, chat_id |-> chat_id, ret |-> "ESP_ERR_NOT_FOUND"]
    ELSE [token |-> TRUE,
          chat_id |-> IF NVS_KEY_TG_CHAT_ID \in DOMAIN store
                      THEN LET r == parse_chat_id_string(store[NVS_KEY_TG_CHAT_ID])
                           IN IF r.ok THEN r.chat_id ELSE 0
                      ELSE chat_id,
          ret |-> "ESP_OK"]

\* telegram_init, then telegram_start with both tasks created: the poll
\* task starts.
telegram_init ==
    /\ pc = "init"
    /\ pc' = "flush1"
    /\ LET r == telegram_init_load(nvs, s_chat_id)
       IN /\ s_bot_token' = r.token
          /\ s_chat_id' = r.chat_id
          /\ init_ret' = r.ret
    /\ UNCHANGED aux_vars
    /\ UNCHANGED <<nvs, s_last_update_id, s_consecutive_failures, flush_last_id,
                   flush_runs, flush_first, polled, input_queue, pending, next_id,
                   preboot, enq_log, req, http, poll_err, poll_path, prev, delay_ms>>

\* telegram_flush_pending up to the end of step 1; the response context
\* lives until the function returns.
telegram_flush_step1 ==
    /\ pc = "flush1"
    /\ \E alloc_ok \in BOOLEAN, kind \in KindsFor(s_bot_token), forget \in BOOLEAN :
         LET r == flush_step1(pending, alloc_ok, kind, forget)
         IN /\ flush_last_id' = r.last_id
            /\ pending' = r.pending
            /\ IF flush_returns_early(r.last_id)
               THEN /\ pc' = "poll"
                    /\ http' = NoHttp
                    /\ flush_runs' = flush_runs + 1
                    /\ flush_first' = IF flush_runs = 0 THEN s_last_update_id
                                      ELSE flush_first
               ELSE /\ pc' = "flush2"
                    /\ http' = r.http
                    /\ UNCHANGED <<flush_runs, flush_first>>
    /\ UNCHANGED aux_vars
    /\ UNCHANGED <<nvs, init_ret, s_bot_token, s_chat_id, s_last_update_id,
                   s_consecutive_failures, polled, input_queue, next_id, preboot,
                   enq_log, req, poll_err, poll_path, prev, delay_ms>>

\* telegram_flush_pending, step 2.
telegram_flush_step2 ==
    /\ pc = "flush2"
    /\ \E alloc_ok \in BOOLEAN, kind \in KindsFor(s_bot_token) :
         LET r == flush_step2(s_last_update_id, pending, flush_last_id, alloc_ok, kind)
         IN /\ s_last_update_id' = r.last
            /\ pending' = r.pending
            /\ flush_first' = IF flush_runs = 0 THEN r.last ELSE flush_first
    /\ pc' = "poll"
    /\ flush_last_id' = 0
    /\ http' = NoHttp
    /\ flush_runs' = flush_runs + 1
    /\ UNCHANGED aux_vars
    /\ UNCHANGED <<nvs, init_ret, s_bot_token, s_chat_id, s_consecutive_failures, polled,
                   input_queue, next_id, preboot, enq_log, req, poll_err,
                   poll_path, prev, delay_ms>>

\* telegram_poll_task, no token: no poll, a 10 s delay.
poll_not_configured ==
    /\ pc = "poll"
    /\ ~s_bot_token
    /\ pc' = "sleep"
    /\ poll_err' = "skipped"
    /\ poll_path' = "skipped"
    /\ delay_ms' = NOT_CONFIGURED_DELAY_MS
    /\ prev' = [last |-> s_last_update_id, failures |-> s_consecutive_failures,
                log |-> Len(enq_log)]
    /\ UNCHANGED aux_vars
    /\ UNCHANGED <<nvs, init_ret, s_bot_token, s_chat_id, s_last_update_id,
                   s_consecutive_failures, flush_last_id, flush_runs, flush_first,
                   polled, input_queue, pending, next_id, preboot, enq_log, req,
                   http>>

\* telegram_poll fails before any request: calloc of the context failed.
poll_no_mem(maxf) ==
    /\ pc = "poll"
    /\ s_bot_token
    /\ s_consecutive_failures < maxf
    /\ LET acc == poll_task_account("ESP_ERR_NO_MEM", s_consecutive_failures)
       IN /\ s_consecutive_failures' = acc.failures
          /\ delay_ms' = acc.delay
    /\ pc' = "sleep"
    /\ poll_err' = "ESP_ERR_NO_MEM"
    /\ poll_path' = "no_mem"
    /\ prev' = [last |-> s_last_update_id, failures |-> s_consecutive_failures,
                log |-> Len(enq_log)]
    /\ UNCHANGED aux_vars
    /\ UNCHANGED <<nvs, init_ret, s_bot_token, s_chat_id, s_last_update_id, flush_last_id,
                   flush_runs, flush_first, polled, input_queue, pending, next_id,
                   preboot, enq_log, req, http>>

\* telegram_poll issues its long poll.
poll_issue ==
    /\ pc = "poll"
    /\ s_bot_token
    /\ Len(enq_log) < MaxEnqueued
    /\ pc' = "await"
    /\ polled' = TRUE
    /\ req' = poll_request(s_last_update_id)
    /\ prev' = [last |-> s_last_update_id, failures |-> s_consecutive_failures,
                log |-> Len(enq_log)]
    /\ UNCHANGED aux_vars
    /\ UNCHANGED <<nvs, init_ret, s_bot_token, s_chat_id, s_last_update_id,
                   s_consecutive_failures, flush_last_id, flush_runs, flush_first,
                   input_queue, pending, next_id, preboot, enq_log, http, poll_err,
                   poll_path, delay_ms>>

\* The request completes; telegram_poll handles the response and
\* telegram_poll_task accounts for the result.
poll_complete(maxf) ==
    /\ pc = "await"
    /\ \E kind \in HttpKinds :
         LET x == HttpExchange(kind, pending, UrlOffsetValue(req.offset), req.limit,
                               FALSE)
             r == telegram_poll_result(
                      x.http,
                      [last |-> s_last_update_id, queue |-> input_queue,
                       log |-> enq_log, err |-> "none", path |-> "none"],
                      s_chat_id)
             acc == poll_task_account(r.err, s_consecutive_failures)
         IN /\ r.err = "ESP_OK" \/ s_consecutive_failures < maxf
            /\ http' = x.http
            /\ pending' = x.pending
            /\ s_last_update_id' = r.last
            /\ input_queue' = r.queue
            /\ enq_log' = r.log
            /\ poll_err' = r.err
            /\ poll_path' = r.path
            /\ s_consecutive_failures' = acc.failures
            /\ delay_ms' = acc.delay
    /\ pc' = "sleep"
    /\ UNCHANGED aux_vars
    /\ UNCHANGED <<nvs, init_ret, s_bot_token, s_chat_id, flush_last_id, flush_runs,
                   flush_first, polled, next_id, preboot, req, prev>>

\* The delays of the loop iteration elapse; its locals go out of scope.
poll_wake ==
    /\ pc = "sleep"
    /\ poll_task_loop(s_consecutive_failures)
    /\ pc' = "poll"
    /\ req' = NoReq
    /\ http' = NoHttp
    /\ poll_err' = "none"
    /\ poll_path' = "none"
    /\ prev' = NoPrev
    /\ delay_ms' = 0
    /\ UNCHANGED aux_vars
    /\ UNCHANGED <<nvs, init_ret, s_bot_token, s_chat_id, s_last_update_id,
                   s_consecutive_failures, flush_last_id, flush_runs, flush_first,
                   polled, input_queue, pending, next_id, preboot, enq_log>>

\* A new update reaches the chat API.
server_arrive ==
    /\ next_id < IdBase(next_id) + MaxUpdates
    /\ \E shape \in UpdateShapes :
         pending' = Append(pending, MkUpdate(next_id, shape))
    /\ next_id' = next_id + 1
    /\ UNCHANGED aux_vars
    /\ UNCHANGED <<nvs, init_ret, pc, s_bot_token, s_chat_id, s_last_update_id,
                   s_consecutive_failures, flush_last_id, flush_runs, flush_first,
                   polled, input_queue, preboot, enq_log, req, http, poll_err,
                   poll_path, prev, delay_ms>>

\* The agent task takes the next message from the input queue.
agent_receive ==
    /\ input_queue # <<>>
    /\ input_queue' = Tail(input_queue)
    /\ UNCHANGED aux_vars
    /\ UNCHANGED <<nvs, init_ret, pc, s_bot_token, s_chat_id, s_last_update_id,
                   s_consecutive_failures, flush_last_id, flush_runs, flush_first,
                   polled, pending, next_id, preboot, enq_log, req, http, poll_err,
                   poll_path, prev, delay_ms>>

Next ==
    \/ telegram_init
    \/ telegram_flush_step1
    \/ telegram_flush_step2
    \/ poll_not_configured
    \/ poll_no_mem(MaxFailures)
    \/ poll_issue
    \/ poll_complete(MaxFailures)
    \/ poll_wake
    \/ server_arrive
    \/ agent_receive

Spec == Init /\ [][Next]_vars

\* The same machine explored deep in the failure counter: a configured
\* device, at most one update pending at boot and none arriving later.
InitBackoff ==
    /\ nvs = [k \in {NVS_KEY_TG_TOKEN, NVS_KEY_TG_CHAT_ID} |->
                 IF k = NVS_KEY_TG_TOKEN THEN <<"t">> ELSE i64_to_str(Exact, OFF_BUF_SIZE)]
    /\ InitServer(1)
    /\ InitDevice
    /\ gpio_cfg = GpioRange

NextBackoff ==
    \/ telegram_init
    \/ telegram_flush_step1
    \/ telegram_flush_step2
    \/ poll_no_mem(BackoffFailures)
    \/ poll_issue
    \/ poll_complete(BackoffFailures)
    \/ poll_wake
    \/ agent_receive

SpecBackoff == InitBackoff /\ [][NextBackoff]_vars

\* telegram_flush_pending called twice in a row: the second call starts
\* when the first has returned, no poll and no arrival in between.
flush_again ==
    /\ pc = "poll"
    /\ flush_runs = 1
    /\ pc' = "flush1"
    /\ UNCHANGED aux_vars
    /\ UNCHANGED <<nvs, init_ret, s_bot_token, s_chat_id, s_last_update_id,
                   s_consecutive_failures, flush_last_id, flush_runs, flush_first,
                   polled, input_queue, pending, next_id, preboot, enq_log, req,
                   http, poll_err, poll_path, prev, delay_ms>>

NextFlushTwice ==
    \/ telegram_init
    \/ telegram_flush_step1
    \/ telegram_flush_step2
    \/ flush_again

SpecFlushTwice == Init /\ [][NextFlushTwice]_vars

----------------------------------------------------------------------------
(* The send task (telegram_send, telegram_send_task) *)

\* What one call of telegram_send can run into.
\*   no_mem     cJSON or calloc failed: no request is made
\*   no_client  esp_http_client_init returned NULL: no request is made
\*   transport  the POST never reached the chat API
\*   lost       the chat API accepted the POST, the transfer then failed
\*   status     the chat API answered with a status other than 200
\*   ok         200
SendOutcomes == {"no_mem", "no_client", "transport", "lost", "status", "ok"}

\* telegram_send(text): the return value, the POSTs issued and what the
\* chat received.
telegram_send(token, chat_id, text, outcome) ==
    IF ~token \/ chat_id = 0
    THEN [err |-> "ESP_ERR_INVALID_STATE", posts |-> <<>>, received |-> <<>>]
    ELSE IF outcome = "no_mem"
    THEN [err |-> "ESP_ERR_NO_MEM", posts |-> <<>>, received |-> <<>>]
    ELSE IF outcome = "no_client"
    THEN [err |-> "ESP_FAIL", posts |-> <<>>, received |-> <<>>]
    ELSE [err |-> IF outcome = "ok" THEN "ESP_OK" ELSE "ESP_FAIL",
          posts |-> <<text>>,
          received |-> IF outcome \in {"ok", "lost"} THEN <<text>> ELSE <<>>]

\* Faulty variant: a failed send is tried once more.
send_task_body_retry(token, chat_id, text, first, second) ==
    LET r1 == telegram_send(token, chat_id, text, first)
        r2 == telegram_send(token, chat_id, text, second)
    IN IF ~token \/ chat_id = 0 THEN [posts |-> <<>>, received |-> <<>>, requeue |-> <<>>]
       ELSE IF r1.err = "ESP_OK"
       THEN [posts |-> r1.posts, received |-> r1.received, requeue |-> <<>>]
       ELSE [posts |-> r1.posts \o r2.posts, received |-> r1.received \o r2.received,
             requeue |-> <<>>]

\* Faulty variant: a message whose send failed goes back on the queue.
send_task_body_requeue(token, chat_id, text, first, second) ==
    IF token /\ chat_id # 0
    THEN LET r == telegram_send(token, chat_id, text, first)
         IN [posts |-> r.posts, received |-> r.received,
             requeue |-> IF r.err = "ESP_OK" THEN <<>> ELSE <<text>>]
    ELSE [posts |-> <<>>, received |-> <<>>, requeue |-> <<>>]

\* Body of the loop of telegram_send_task for one received message: one
\* call of telegram_send, its return value ignored.  first is what that call
\* runs into; second is what a further call would run into.
send_task_body(token, chat_id, text, first, second) ==
    IF token /\ chat_id # 0
    THEN LET r == telegram_send(token, chat_id, text, first)
         IN [posts |-> r.posts, received |-> r.received, requeue |-> <<>>]
    ELSE [posts |-> <<>>, received |-> <<>>, requeue |-> <<>>]

\* The agent queues its next reply for the chat.
agent_reply ==
    /\ next_reply <= MaxReplies
    /\ Len(output_queue) < OutputQueueCap
    /\ output_queue' = Append(output_queue, next_reply)
    /\ next_reply' = next_reply + 1
    /\ UNCHANGED <<taken, posts, chat_log>>
    /\ UNCHANGED i2c_vars
    /\ UNCHANGED tool_vars
    /\ UNCHANGED sys_vars
    /\ UNCHANGED <<nvs, init_ret, pc, s_bot_token, s_chat_id, s_last_update_id,
                   s_consecutive_failures, flush_last_id, flush_runs, flush_first,
                   polled, input_queue, pending, next_id, preboot, enq_log, req,
                   http, poll_err, poll_path, prev, delay_ms>>

\* telegram_send_task: one iteration of its loop.
telegram_send_task ==
    /\ pc # "init"
    /\ output_queue # <<>>
    /\ \E first \in SendOutcomes, second \in SendOutcomes :
         LET r == send_task_body(s_bot_token, s_chat_id, Head(output_queue),
                                 first, second)
         IN /\ output_queue' = Tail(output_queue) \o r.requeue
            /\ posts' = posts \o r.posts
            /\ chat_log' = chat_log \o r.received
    /\ taken' = taken \cup {Head(output_queue)}
    /\ UNCHANGED next_reply
    /\ UNCHANGED i2c_vars
    /\ UNCHANGED tool_vars
    /\ UNCHANGED sys_vars
    /\ UNCHANGED <<nvs, init_ret, pc, s_bot_token, s_chat_id, s_last_update_id,
                   s_consecutive_failures, flush_last_id, flush_runs, flush_first,
                   polled, input_queue, pending, next_id, preboot, enq_log, req,
                   http, poll_err, poll_path, prev, delay_ms>>

\* The send side alone: a booted device, the agent and the send task.
InitSend ==
    /\ nvs \in NvsImages
    /\ InitServer(0)
    /\ InitDevice
    /\ gpio_cfg = GpioRange

NextSend ==
    \/ telegram_init
    \/ agent_reply
    \/ telegram_send_task

SpecSend == InitSend /\ [][NextSend]_vars

\* The send side under a fair scheduler: telegram_send returns (the HTTP
\* client has a timeout), so the send task is never stopped for ever while
\* a message waits.
SpecSendFair == SpecSend /\ WF_vars(telegram_send_task)

\* The agent has read the result buffer of the tool call.
tool_result_taken ==
    /\ scan # NoScan \/ tool_ret # NoToolRet
    /\ scan' = NoScan
    /\ tool_ret' = NoToolRet
    /\ UNCHANGED <<gpio_cfg, i2c_installed, i2c_links, user_tools>>
    /\ UNCHANGED send_vars
    /\ UNCHANGED tg_vars
    /\ UNCHANGED sys_vars

\* The i2c_scan tool alone, under every pin configuration.
InitI2C ==
    /\ nvs = [k \in {NVS_KEY_TG_TOKEN} |-> <<"t">>]
    /\ pending = <<>>
    /\ next_id = 1
    /\ InitDevice
    /\ gpio_cfg \in GpioConfigs

NextI2C ==
    \/ tools_i2c_scan_handler
    \/ tool_result_taken

SpecI2C == InitI2C /\ [][NextI2C]_vars

\* The user-tool handlers alone.
InitTools ==
    /\ nvs = [k \in {NVS_KEY_TG_TOKEN} |-> <<"t">>]
    /\ pending = <<>>
    /\ next_id = 1
    /\ InitDevice
    /\ gpio_cfg = GpioRange

NextTools ==
    \/ tools_create_tool_handler
    \/ tools_delete_user_tool_handler
    \/ tool_result_taken

SpecTools == InitTools /\ [][NextTools]_vars

----------------------------------------------------------------------------
(* The rate limiter under a running clock *)

\* The clock moves in half hours, from the hour or one second before it.
ClockStep == SECONDS_PER_HOUR \div 2

\* The epoch the clock shows when it is synced at uptime 0: 23:00 of a day.
SyncEpoch == SECONDS_PER_DAY + 23 * SECONDS_PER_HOUR

ClockEnd(synced) ==
    IF synced THEN SyncEpoch + (MaxClockSteps + 3) * ClockStep ELSE 3 * ClockStep - 1

clock_advance ==
    /\ now + ClockStep <= ClockEnd(time_synced)
    /\ now' = now + ClockStep
    /\ UNCHANGED time_synced

\* The clock is set from the network: uptime becomes wall-clock time.
clock_sync ==
    /\ ~time_synced
    /\ time_synced' = TRUE
    /\ now' = SyncEpoch + now

clock_tick ==
    /\ clock_advance
    /\ UNCHANGED <<rate_vars, agent_vars, cron_vars, boot_vars, start_vars, fn_vars, send_vars, i2c_vars, tool_vars, tg_vars>>

clock_synced ==
    /\ clock_sync
    /\ UNCHANGED <<rate_vars, agent_vars, cron_vars, boot_vars, start_vars, fn_vars, send_vars, i2c_vars, tool_vars, tg_vars>>

\* A caller invokes admit().
ratelimit_admit_call ==
    LET a == ratelimit_admit(ratelimit, now, time_synced)
    IN /\ ratelimit' = a.rl
       /\ admit_ret' = AdmitRecord(a, now, time_synced, admit_ret)
       /\ hour_allowed' = AllowedInHour(a, now, admit_ret, hour_allowed)
       /\ day_allowed' = AllowedInDay(a, now, admit_ret, day_allowed)
       /\ UNCHANGED <<clock_vars, agent_vars, cron_vars, boot_vars, start_vars, fn_vars, send_vars, i2c_vars, tool_vars, tg_vars>>

\* The limiter at the start of a run: untouched, or with EarlierToday
\* admissions granted earlier in the day, the last of them an hour ago.
InitRateRun ==
    \/ /\ time_synced = FALSE
       /\ now \in {0, ClockStep - 1}
       /\ InitRate
    \/ /\ time_synced = TRUE
       /\ now \in {SyncEpoch, SyncEpoch + ClockStep - 1}
       /\ \/ /\ ratelimit = RateZero(now)
             /\ admit_ret = NoAdmit
             /\ hour_allowed = 0
             /\ day_allowed = 0
          \/ \E last \in {now - SECONDS_PER_HOUR} :
                /\ ratelimit = [hour_count |-> 1, day_count |-> EarlierToday,
                                hour_start |-> HourStart(last),
                                day_start |-> DayStart(last)]
                /\ admit_ret = [result |-> "Allow", reason |-> "none", t |-> last,
                                synced |-> TRUE, prev |-> "Allow", prev_t |-> last]
                /\ hour_allowed = 1
                /\ day_allowed = EarlierToday

InitRateSpec ==
    /\ nvs = [k \in {NVS_KEY_TG_TOKEN} |-> <<"t">>]
    /\ InitServer(0)
    /\ InitChannel
    /\ gpio_cfg = GpioRange
    /\ InitCron
    /\ InitBoot
    /\ InitStart
    /\ InitFn
    /\ InitAgent
    /\ InitRateRun

NextRate ==
    \/ ratelimit_admit_call
    \/ clock_tick
    \/ clock_synced

SpecRate == InitRateSpec /\ [][NextRate]_vars

----------------------------------------------------------------------------
(* Scheduler (cron.c) *)

SCHEDULER_TICK == 60
CRON_MIN_INTERVAL == 60

JobKinds == {"Once", "Daily", "Periodic"}

Job(kind, interval, next_fire, created) ==
    [kind |-> kind, interval |-> interval, next_fire |-> next_fire,
     created |-> created, active |-> TRUE]

\* The distance between two firings of a recurring job.
cron_step(job) == IF job.kind = "Daily" THEN SECONDS_PER_DAY ELSE job.interval

\* Faulty variant: one interval is added however many have elapsed.
cron_next_fire_one_step(job, t) == job.next_fire + cron_step(job)

\* The first fire time after t on the job's grid.
cron_next_fire(job, t) ==
    job.next_fire + (((t - job.next_fire) \div cron_step(job)) + 1) * cron_step(job)

\* Steps 2b and 2c: a Once job is deactivated, a recurring job moves on.
cron_fire_job(job, t) ==
    IF job.kind = "Once" THEN [job EXCEPT !.active = FALSE]
    ELSE [job EXCEPT !.next_fire = cron_next_fire(job, t)]

\* Faulty variant: a job whose message was dropped is advanced all the same.
cron_after_drop_advance(job, t) == cron_fire_job(job, t)

\* A job whose message was dropped remains scheduled as it was.
cron_after_drop(job, t) == job

cron_message(id) == [origin |-> "Schedule", job |-> id]

\* Step 2 for the jobs i.. of the table, in table order: a due job puts its
\* message on the input queue without waiting and is advanced and
\* persisted, or finds the queue full and is dropped with a log.
RECURSIVE cron_check(_, _, _)
cron_check(st, i, t) ==
    IF i > Len(st.jobs) THEN st
    ELSE LET job == st.jobs[i]
         IN IF ~(job.active /\ job.next_fire <= t) THEN cron_check(st, i + 1, t)
            ELSE IF Len(st.queue) < InputQueueCap
            THEN cron_check([st EXCEPT !.queue = Append(@, cron_message(i)),
                                       !.sent = Append(@, i),
                                       !.jobs[i] = cron_fire_job(job, t),
                                       !.store[i] = cron_fire_job(job, t)],
                            i + 1, t)
            ELSE cron_check([st EXCEPT !.dropped = @ \cup {i},
                                       !.jobs[i] = cron_after_drop(job, t)],
                            i + 1, t)

CronEnd(synced) ==
    IF synced THEN SyncEpoch + (MaxCronTicks + 2) * SCHEDULER_TICK
    ELSE 2 * SCHEDULER_TICK

\* One round of the scheduler task: it sleeps SCHEDULER_TICK, fetches the
\* epoch, gives up when the clock is not synced and checks the table
\* otherwise.
cron_tick ==
    /\ now + SCHEDULER_TICK <= CronEnd(time_synced)
    /\ now' = now + SCHEDULER_TICK
    /\ UNCHANGED time_synced
    /\ LET st == [jobs |-> cron_jobs, store |-> cron_nvs, queue |-> input_queue,
                  sent |-> <<>>, dropped |-> {}]
           r == IF time_synced THEN cron_check(st, 1, now') ELSE st
       IN /\ cron_jobs' = r.jobs
          /\ cron_nvs' = r.store
          /\ input_queue' = r.queue
          /\ tick_ret' = [at |-> now', synced |-> time_synced, before |-> cron_jobs,
                          sent |-> r.sent, dropped |-> r.dropped]
          /\ fired_count' = [i \in DOMAIN fired_count |->
                                fired_count[i] + Cardinality({k \in DOMAIN r.sent : r.sent[k] = i})]
    /\ UNCHANGED <<rate_vars, agent_vars, boot_vars, start_vars, fn_vars, agent_idle_vars, agent_tg_vars>>

----------------------------------------------------------------------------
(* The agent task alone *)

\* The clock is synced and the hour counter is fresh or one short of its cap.
InitAgentSpec ==
    /\ nvs = [k \in {NVS_KEY_TG_TOKEN} |-> <<"t">>]
    /\ InitServer(0)
    /\ InitChannel
    /\ gpio_cfg = GpioRange
    /\ InitCron
    /\ InitBoot
    /\ InitStart
    /\ InitFn
    /\ InitAgent
    /\ time_synced = TRUE
    /\ now = SyncEpoch
    /\ \E done \in {0, RATELIMIT_MAX_PER_HOUR - 1} :
          /\ ratelimit = [RateZero(now) EXCEPT !.hour_count = done, !.day_count = done]
          /\ admit_ret = IF done = 0 THEN NoAdmit
                         ELSE [result |-> "Allow", reason |-> "none", t |-> now,
                               synced |-> TRUE, prev |-> "Allow", prev_t |-> now]
          /\ hour_allowed = done
          /\ day_allowed = done

NextAgent ==
    \/ message_arrive
    \/ agent_take
    \/ agent_admit
    \/ agent_llm
    \/ agent_tool
    \/ agent_respond

SpecAgent == InitAgentSpec /\ [][NextAgent]_vars

\* The agent task is scheduled: a step it can take is taken.
SpecAgentFair == SpecAgent /\ WF_vars(agent_step)

----------------------------------------------------------------------------
(* The scheduler from boot *)

\* Jobs the persistent table may hold at boot, their fire times laid
\* around the epoch the clock will show once synced: a Once job long due, a
\* Once job still to come, a Periodic job several intervals behind, a
\* Periodic job of the minimum interval, a Daily job more than a day
\* behind, and a Once job created before any sync.
JobTemplates ==
    {Job("Once", 0, SyncEpoch - 5 * SCHEDULER_TICK, SyncEpoch - 10 * SCHEDULER_TICK),
     Job("Once", 0, SyncEpoch + 3 * SCHEDULER_TICK, SyncEpoch - 10 * SCHEDULER_TICK),
     Job("Periodic", 2 * CRON_MIN_INTERVAL, SyncEpoch - 5 * SCHEDULER_TICK,
         SyncEpoch - 7 * SCHEDULER_TICK),
     Job("Periodic", CRON_MIN_INTERVAL, SyncEpoch + SCHEDULER_TICK, SyncEpoch),
     Job("Daily", 0, SyncEpoch - SECONDS_PER_DAY - 2 * SCHEDULER_TICK,
         SyncEpoch - 2 * SECONDS_PER_DAY),
     Job("Once", 0, SCHEDULER_TICK, 0)}

JobTables ==
    UNION {{t \in [1..n -> JobTemplates] : \A i, j \in 1..n : i # j => t[i] # t[j]} :
           n \in 1..MaxJobs}

InitCronSpec ==
    /\ nvs = [k \in {NVS_KEY_TG_TOKEN} |-> <<"t">>]
    /\ InitServer(0)
    /\ InitChannel
    /\ gpio_cfg = GpioRange
    /\ InitClock
    /\ InitRate
    /\ InitAgent
    /\ InitBoot
    /\ InitStart
    /\ InitFn
    /\ cron_jobs \in JobTables
    /\ cron_nvs = cron_jobs
    /\ tick_ret = NoTick
    /\ fired_count = [i \in DOMAIN cron_jobs |-> 0]

NextCron ==
    \/ cron_tick
    \/ clock_synced
    \/ agent_receive

SpecCron == InitCronSpec /\ [][NextCron]_vars

----------------------------------------------------------------------------
(* The supervisor over a series of boots *)

InitBootSpec ==
    /\ nvs = [k \in {NVS_KEY_TG_TOKEN} |-> <<"t">>]
    /\ InitServer(0)
    /\ InitChannel
    /\ gpio_cfg = GpioRange
    /\ InitSys

NextBoot ==
    \/ boot
    \/ boot_uptime
    \/ boot_crash

SpecBoot == InitBootSpec /\ [][NextBoot]_vars

----------------------------------------------------------------------------
(* telegram_start: creation of the two tasks *)

\* At most one reply is queued while the tasks are being started.
StartReplies == 1

\* Order of startup: telegram_init is called once, before telegram_start.
telegram_init_allowed(ret, spc) == ret = "none" /\ spc = "idle"

\* main calls telegram_init; the poll task does not exist yet.
telegram_init_call ==
    /\ pc = "init"
    /\ telegram_init_allowed(init_ret, start_pc)
    /\ LET r == telegram_init_load(nvs, s_chat_id)
       IN /\ s_bot_token' = r.token
          /\ s_chat_id' = r.chat_id
          /\ init_ret' = r.ret
    /\ UNCHANGED <<send_vars, i2c_vars, tool_vars>>
    /\ UNCHANGED <<clock_vars, rate_vars, agent_vars, cron_vars, boot_vars, start_vars, fn_vars>>
    /\ UNCHANGED <<nvs, pc, s_last_update_id, s_consecutive_failures, flush_last_id,
                   flush_runs, flush_first, polled, input_queue, pending, next_id,
                   preboot, enq_log, req, http, poll_err, poll_path, prev, delay_ms>>

\* What the steps of telegram_start leave alone.
start_other_vars == <<send_vars, i2c_vars, tool_vars, clock_vars, rate_vars, agent_vars,
                      cron_vars, boot_vars, fn_vars>>

start_tg_vars == <<nvs, init_ret, s_bot_token, s_chat_id, s_last_update_id,
                   s_consecutive_failures, flush_last_id, flush_runs, flush_first,
                   polled, input_queue, pending, next_id, preboot, enq_log, req,
                   http, poll_err, poll_path, prev, delay_ms>>

\* telegram_start, the check of its arguments: a null queue is refused.
telegram_start_check ==
    /\ start_pc = "idle"
    /\ init_ret # "none"
    /\ \E input_ok \in BOOLEAN, output_ok \in BOOLEAN :
         IF ~input_ok \/ ~output_ok
         THEN start_ret' = "ESP_ERR_INVALID_ARG" /\ start_pc' = "done"
         ELSE start_ret' = start_ret /\ start_pc' = "create_poll"
    /\ UNCHANGED <<pc, poll_task, send_task>>
    /\ UNCHANGED start_other_vars
    /\ UNCHANGED start_tg_vars

\* xTaskCreate(telegram_poll_task): from its return on the new task is
\* ready and runs whenever the scheduler picks it.
telegram_start_create_poll ==
    /\ start_pc = "create_poll"
    /\ \E created \in BOOLEAN :
         IF created
         THEN /\ poll_task' = "running"
              /\ pc' = "flush1"
              /\ start_pc' = "create_send"
              /\ start_ret' = start_ret
         ELSE /\ start_ret' = "ESP_ERR_NO_MEM"
              /\ start_pc' = "done"
              /\ UNCHANGED <<pc, poll_task>>
    /\ UNCHANGED send_task
    /\ UNCHANGED start_other_vars
    /\ UNCHANGED start_tg_vars

\* xTaskCreate(telegram_send_task); when it fails the poll task is deleted.
telegram_start_create_send ==
    /\ start_pc = "create_send"
    /\ \E created \in BOOLEAN :
         IF created
         THEN /\ send_task' = "running"
              /\ start_ret' = "ESP_OK"
              /\ UNCHANGED poll_task
         ELSE /\ poll_task' = "deleted"
              /\ start_ret' = "ESP_ERR_NO_MEM"
              /\ UNCHANGED send_task
    /\ start_pc' = "done"
    /\ UNCHANGED pc
    /\ UNCHANGED start_other_vars
    /\ UNCHANGED start_tg_vars

\* A step of the poll task, while it exists.
poll_task_step ==
    /\ poll_task = "running"
    /\ \/ telegram_flush_step1
       \/ telegram_flush_step2
       \/ poll_not_configured
       \/ poll_no_mem(MaxFailures)
       \/ poll_issue
       \/ poll_complete(MaxFailures)
       \/ poll_wake

\* Faulty variant: the send task clears the backoff of the poll task when
\* it takes a message.
send_task_step_clears_backoff ==
    /\ send_task = "running"
    /\ output_queue # <<>>
    /\ output_queue' = Tail(output_queue)
    /\ taken' = taken \cup {Head(output_queue)}
    /\ s_consecutive_failures' = 0
    /\ UNCHANGED <<next_reply, posts, chat_log>>
    /\ UNCHANGED <<i2c_vars, tool_vars, sys_vars>>
    /\ UNCHANGED <<nvs, init_ret, pc, s_bot_token, s_chat_id, s_last_update_id,
                   flush_last_id, flush_runs, flush_first, polled, input_queue,
                   pending, next_id, preboot, enq_log, req, http, poll_err,
                   poll_path, prev, delay_ms>>

\* A step of the send task, while it exists.
send_task_step ==
    /\ send_task = "running"
    /\ telegram_send_task

\* The agent queues a reply.
start_agent_reply ==
    /\ next_reply <= StartReplies
    /\ agent_reply

InitStartSpec ==
    /\ nvs \in NvsImages
    /\ InitServer(1)
    /\ InitDevice
    /\ gpio_cfg = GpioRange

NextStart ==
    \/ telegram_init_call
    \/ telegram_start_check
    \/ telegram_start_create_poll
    \/ telegram_start_create_send
    \/ poll_task_step
    \/ send_task_step
    \/ start_agent_reply
    \/ agent_receive

SpecStart == InitStartSpec /\ [][NextStart]_vars

----------------------------------------------------------------------------
(* The poll task under a fair scheduler *)

\* The chat API holds at most one update, with an id a double holds
\* exactly, and none arrives later.
InitPollFair ==
    /\ nvs \in NvsImages
    /\ \E k \in 0..1 :
          \E shapes \in [1..k -> UpdateShapes] :
             /\ pending = [i \in 1..k |-> MkUpdate(i, shapes[i])]
             /\ next_id = 1 + k
    /\ InitDevice
    /\ gpio_cfg = GpioRange

NextPollFair ==
    \/ telegram_init
    \/ telegram_flush_step1
    \/ telegram_flush_step2
    \/ poll_not_configured
    \/ poll_no_mem(BackoffFailures)
    \/ poll_issue
    \/ poll_complete(BackoffFailures)
    \/ poll_wake
    \/ agent_receive

\* The steps of the poll task: every HTTP request ends (the client has a
\* timeout) and every vTaskDelay is finite, so the task is never stopped
\* for ever while it has a step to take.
poll_task_run ==
    \/ telegram_flush_step1
    \/ telegram_flush_step2
    \/ poll_not_configured
    \/ poll_no_mem(BackoffFailures)
    \/ poll_issue
    \/ poll_complete(BackoffFailures)
    \/ poll_wake

SpecPollFair == InitPollFair /\ [][NextPollFair]_vars /\ WF_vars(poll_task_run)

----------------------------------------------------------------------------
(* get_backoff_delay_ms over the failure counts of an int *)

\* Failure counts: the small ones and the largest an int holds.
BackoffInputs == (0..MaxBackoffInput) \cup {INT_MAX - 1, INT_MAX}

\* One call of get_backoff_delay_ms with s_consecutive_failures = n.
get_backoff_delay_ms_call ==
    /\ \E n \in BackoffInputs :
         /\ fn_call' = [fn |-> "get_backoff_delay_ms", n |-> n]
         /\ fn_ret' = [fn |-> "get_backoff_delay_ms",
                       delay |-> get_backoff_delay_ms(n),
                       values |-> IF n = 0 THEN {}
                                  ELSE {BACKOFF_BASE_MS}
                                       \cup backoff_loop_values(1, n, BACKOFF_BASE_MS)]
    /\ UNCHANGED <<send_vars, i2c_vars, tool_vars, tg_vars>>
    /\ UNCHANGED <<clock_vars, rate_vars, agent_vars, cron_vars, boot_vars, start_vars>>

InitBackoffFn ==
    /\ nvs \in NvsImages
    /\ InitServer(0)
    /\ InitDevice
    /\ gpio_cfg = GpioRange

NextBackoffFn == get_backoff_delay_ms_call

SpecBackoffFn == InitBackoffFn /\ [][NextBackoffFn]_vars

----------------------------------------------------------------------------
(* i64_to_str over every value and buffer size *)

\* One call of i64_to_str(val, buf, buf_size), and the offset parameter
\* telegram_poll writes when s_last_update_id = val.
i64_to_str_call ==
    /\ fn_call = NoCall
    /\ \E val \in INT64_MIN..INT64_MAX, buf_size \in 0..MaxBufSize :
         /\ fn_call' = [fn |-> "i64_to_str", val |-> val, buf_size |-> buf_size]
         /\ fn_ret' = [fn |-> "i64_to_str",
                       text |-> i64_to_str(val, buf_size),
                       written |-> i64_to_str_buf(val, buf_size).written,
                       offset |-> IF val < INT64_MAX THEN poll_request(val).offset
                                  ELSE <<>>]
    /\ UNCHANGED <<send_vars, i2c_vars, tool_vars, tg_vars>>
    /\ UNCHANGED <<clock_vars, rate_vars, agent_vars, cron_vars, boot_vars, start_vars>>

\* The caller has used the string.
i64_to_str_return ==
    /\ fn_call # NoCall
    /\ fn_call' = NoCall
    /\ fn_ret' = NoCall
    /\ UNCHANGED <<send_vars, i2c_vars, tool_vars, tg_vars>>
    /\ UNCHANGED <<clock_vars, rate_vars, agent_vars, cron_vars, boot_vars, start_vars>>

InitI64 ==
    /\ nvs = [k \in {NVS_KEY_TG_TOKEN} |-> <<"t">>]
    /\ InitServer(0)
    /\ InitDevice
    /\ gpio_cfg = GpioRange

NextI64 ==
    \/ i64_to_str_call
    \/ i64_to_str_return

SpecI64 == InitI64 /\ [][NextI64]_vars

----------------------------------------------------------------------------
(* telegram_init over many stored chat-id strings *)

\* Strings the chat-id key may hold: optional white space, optional sign,
\* digits or none, and a tail of white space or other characters.
ChatIdStrings ==
    {pre \o sign \o digits \o tail :
        pre \in {<<>>, <<" ">>, <<"\t", " ">>},
        sign \in {<<>>, <<"-">>, <<"+">>},
        digits \in {<<>>, <<"0">>, <<"0", "0">>, <<"8">>, <<"9">>, <<"1", "7">>,
                    <<"0", "0", "7">>},
        tail \in {<<>>, <<" ">>, <<"\n">>, <<"x">>, <<" ", "x">>, <<".", "5">>,
                  <<" ", "1">>}}

InitImages ==
    {[k \in {NVS_KEY_TG_TOKEN} |-> <<"t">>]}
    \cup {[k \in {NVS_KEY_TG_CHAT_ID} |-> str] : str \in ChatIdStrings}
    \cup {[k \in {NVS_KEY_TG_TOKEN, NVS_KEY_TG_CHAT_ID} |->
              IF k = NVS_KEY_TG_TOKEN THEN <<"t">> ELSE str] :
          str \in ChatIdStrings}

InitInit ==
    /\ nvs \in InitImages
    /\ InitServer(0)
    /\ InitDevice
    /\ gpio_cfg = GpioRange

NextInit == telegram_init

SpecInit == InitInit /\ [][NextInit]_vars

----------------------------------------------------------------------------
(* Claims *)

Enqueued == {enq_log[i] : i \in DOMAIN enq_log}

PollFinished == pc = "sleep" /\ poll_err \notin {"none", "skipped"}

\* C1: no update that was pending at the chat API before boot is ever
\* placed on the agent input queue, whatever the outcome of the two flush
\* requests.
C1_NoPrebootReplay == \A e \in Enqueued : e.u.id \notin preboot

\* C2: a message is placed on the input queue only for an update that has
\* a message with a text and whose chat id equals the authorised chat id.
C2_OnlyAuthorisedText ==
    \A e \in Enqueued : e.u.msg = "text" /\ e.u.chat = s_chat_id

NVS_KEY_LAST_UPDATE == "tg_last_upd"

C4_PersistedBeforeEnqueue ==
    \A e \in Enqueued :
       /\ NVS_KEY_LAST_UPDATE \in DOMAIN nvs
       /\ strtoll(nvs[NVS_KEY_LAST_UPDATE]).value >= e.u.id

\* C5: a steady-state request in flight carries offset = s_last_update_id
\* + 1 and limit = 1, and its transport timeout is the long-poll timeout
\* plus 10 s.
C5_PollRequest ==
    pc = "await" =>
       /\ UrlOffsetValue(req.offset) = s_last_update_id + 1
       /\ req.limit = 1
       /\ req.timeout = TELEGRAM_POLL_TIMEOUT
       /\ req.timeout_ms = (req.timeout + 10) * 1000

C5_Witness == pc = "await" /\ s_last_update_id > 0 /\ prev.log > 0

\* C6: on a boot that finds updates pending with highest id L the flush
\* leaves s_last_update_id = L, so that the first poll asks for L + 1.
C6_FlushReachesHighest ==
    (/\ pc = "poll" /\ flush_runs = 1 /\ ~polled
     /\ preboot # {}
     /\ next_id = SetMax(preboot) + 1)
    => /\ s_last_update_id = SetMax(preboot)
       /\ UrlOffsetValue(poll_request(s_last_update_id).offset) = SetMax(preboot) + 1
       /\ enq_log = <<>>

TruncationOutcome ==
    IF http.visible # {}
    THEN /\ s_last_update_id = SetMax(http.visible)
         /\ Len(enq_log) = prev.log
         /\ poll_err = "ESP_OK"
         /\ s_consecutive_failures = 0
    ELSE /\ poll_err # "ESP_OK"
         /\ s_consecutive_failures = prev.failures + 1
         /\ s_last_update_id = prev.last

\* C8 as stated: every poll whose body overflowed the buffer recovers the
\* highest visible update id and succeeds, or fails when none is visible.
C8_TruncationAlways == (PollFinished /\ http.truncated) => TruncationOutcome

\* C8 amended: the same, for a poll whose transfer succeeded with status 200.
C8_Truncation ==
    (PollFinished /\ http.truncated /\ http.err_ok /\ http.status = 200)
    => TruncationOutcome

C8_Witness ==
    /\ PollFinished
    /\ http.truncated /\ http.err_ok /\ http.status = 200
    /\ http.visible # {}
    /\ prev.last > 0
    /\ s_last_update_id > prev.last

C10_FailureCounter ==
    [][LET finished == pc \in {"poll", "await"} /\ pc' = "sleep"
                        /\ poll_err' # "skipped"
       IN /\ (finished /\ poll_err' = "ESP_OK") => s_consecutive_failures' = 0
          /\ (finished /\ poll_err' # "ESP_OK")
                => s_consecutive_failures' = s_consecutive_failures + 1
          /\ ~finished => s_consecutive_failures' = s_consecutive_failures]_vars

C10_Witness ==
    /\ PollFinished
    /\ poll_path = "recovered"
    /\ prev.failures > 0
    /\ s_consecutive_failures = 0

Occurrences(seq, x) == Cardinality({i \in DOMAIN seq : seq[i] = x})

\* C11: for every reply the send task takes from its queue at most one
\* sendMessage POST is issued, whatever the outcome; the reply is not put
\* back on the queue, and the chat receives no reply twice.
C11_AtMostOnePost ==
    \A m \in 1..MaxReplies :
       /\ Occurrences(posts, m) <= 1
       /\ Occurrences(chat_log, m) <= 1
       /\ m \in taken => Occurrences(output_queue, m) = 0
       /\ Occurrences(posts, m) = 1 => m \in taken

C11_Witness ==
    /\ taken = {1, 2}
    /\ posts = <<1, 2>>
    /\ chat_log = <<2>>
    /\ output_queue = <<3>>

\* A finished poll whose accepted update found the input queue full.
QueueFullDrop ==
    /\ PollFinished
    /\ poll_path = "processed"
    /\ http.updates # <<>>
    /\ update_accepted(http.updates[1], s_chat_id)
    /\ Len(enq_log) = prev.log

\* C12: when the input queue is full the poller drops the message, the
\* poll is not a failure, and polling continues from the id after the
\* dropped update.
C12_QueueFullDrop ==
    QueueFullDrop =>
       /\ poll_err = "ESP_OK"
       /\ s_consecutive_failures = 0
       /\ s_last_update_id = http.updates[1].id
       /\ UrlOffsetValue(poll_request(s_last_update_id).offset) = http.updates[1].id + 1

\* The same for an update id that a double holds exactly.
C12_QueueFullDropExact ==
    (QueueFullDrop /\ http.updates[1].id <= Exact) => C12_QueueFullDrop

\* C13: while no chat id is authorised (s_chat_id = 0: the stored chat id
\* is absent, unparsable or zero) no update is placed on the input queue.
C13_NoChatNoEnqueue == s_chat_id = 0 => (enq_log = <<>> /\ input_queue = <<>>)

C13_Witness ==
    /\ s_chat_id = 0
    /\ s_bot_token
    /\ NVS_KEY_TG_CHAT_ID \in DOMAIN nvs
    /\ parse_chat_id_string(nvs[NVS_KEY_TG_CHAT_ID]).ok = FALSE
    /\ Len(nvs[NVS_KEY_TG_CHAT_ID]) > 1
    /\ PollFinished
    /\ poll_path = "processed"
    /\ http.updates # <<>>
    /\ http.updates[1].msg = "text"
    /\ s_last_update_id = http.updates[1].id

\* C14: on every return path of tools_i2c_scan_handler no I2C driver is
\* left installed on the scan port and every command link created has been
\* deleted.
C14_DriverTornDown == scan # NoScan => (~i2c_installed /\ i2c_links = 0)

C14_Witness ==
    /\ scan # NoScan
    /\ scan.exit = "no_mem"
    /\ scan.calls.install = 1
    /\ scan.calls.begin > 1
    /\ scan.found # <<>>
    /\ ~i2c_installed

DriverCalls(calls) ==
    calls.delete + calls.config + calls.install + calls.link + calls.begin

\* The conditions C15 lists, on the values the handler reads.
ScanInputOk(input, cfg) ==
    /\ cJSON_IsNumber(input.sda_pin)
    /\ cJSON_IsNumber(input.scl_pin)
    /\ valueint(input.sda_pin) # valueint(input.scl_pin)
    /\ gpio_pin_is_allowed(valueint(input.sda_pin), cfg)
    /\ gpio_pin_is_allowed(valueint(input.scl_pin), cfg)
    /\ \/ input.frequency_hz.type = "absent"
       \/ /\ cJSON_IsNumber(input.frequency_hz)
          /\ 10000 <= valueint(input.frequency_hz)
          /\ valueint(input.frequency_hz) <= 1000000

StartsWith(text, prefix) ==
    Len(text) >= Len(prefix) /\ SubSeq(text, 1, Len(prefix)) = prefix

EndsWith(text, suffix) ==
    Len(text) >= Len(suffix)
    /\ SubSeq(text, Len(text) - Len(suffix) + 1, Len(text)) = suffix

\* C15: the handler calls the I2C driver only when both pins are numbers,
\* differ, pass the GPIO allow check and the frequency (100000 when
\* omitted) is within 10000..1000000; otherwise it returns false with an
\* error message (as much of it as the result buffer holds) and makes no
\* driver call.
C15_ValidatedBeforeDriver ==
    scan # NoScan =>
       /\ DriverCalls(scan.calls) > 0 => ScanInputOk(scan.call.input, gpio_cfg)
       /\ ~ScanInputOk(scan.call.input, gpio_cfg) =>
             /\ ~scan.ok
             /\ StartsWith(scan.result, Take(MsgError, scan.call.result_len - 1))
             /\ scan.result # <<>> \/ scan.call.result_len = 1
             /\ DriverCalls(scan.calls) = 0
       /\ (ScanInputOk(scan.call.input, gpio_cfg)
             /\ scan.call.input.frequency_hz.type = "absent"
             /\ scan.ok /\ scan.found = <<>>
             /\ scan.call.result_len = TOOL_RESULT_LEN)
          => EndsWith(scan.result, MsgAt \o FmtD(100000) \o MsgHz)

C15_Witness ==
    /\ scan # NoScan
    /\ gpio_cfg.csv # <<>>
    /\ cJSON_IsNumber(scan.call.input.sda_pin)
    /\ cJSON_IsNumber(scan.call.input.scl_pin)
    /\ valueint(scan.call.input.sda_pin) # valueint(scan.call.input.scl_pin)
    /\ gpio_pin_is_allowed(valueint(scan.call.input.sda_pin), gpio_cfg)
    /\ ~gpio_pin_is_allowed(valueint(scan.call.input.scl_pin), gpio_cfg)
    /\ ~scan.ok
    /\ DriverCalls(scan.calls) = 0

\* The addresses written out in full ("0xNN") in a result text.
ShownAddresses(text) ==
    Cardinality({i \in 1..Len(text) :
                    /\ i + 3 <= Len(text)
                    /\ text[i] = "0" /\ text[i + 1] = "x"
                    /\ \E a \in 1..16 : HexChars[a] = text[i + 2]
                    /\ \E b \in 1..16 : HexChars[b] = text[i + 3]})

\* C16: the result of a scan that found devices never exceeds the buffer,
\* and whenever it does not show every found address it ends with the
\* complete marker " ... (+N more)", N being the number of addresses left out.
C16_ResultFitsWithMarker ==
    (scan # NoScan /\ scan.exit = "done" /\ scan.found # <<>>) =>
       LET shown == ShownAddresses(scan.result)
       IN /\ Len(scan.result) <= scan.call.result_len - 1
          /\ shown < Len(scan.found) =>
                EndsWith(scan.result,
                         MsgMarkerOpen \o FmtD(Len(scan.found) - shown) \o MsgMarkerClose)

\* The length bound of C16 alone.
C16_ResultFits ==
    scan # NoScan => Len(scan.result) <= scan.call.result_len - 1

\* The entries of a comma-separated list.
RECURSIVE CsvEntries(_)
CsvEntries(s) ==
    LET rest == SkipToComma(s)
        entry == SubSeq(s, 1, Len(s) - Len(rest))
    IN {entry} \cup (IF rest = <<>> THEN {} ELSE CsvEntries(Tail(rest)))

RECURSIVE TrimBlanks(_)
TrimBlanks(e) ==
    IF e # <<>> /\ Head(e) \in {" ", "\t"} THEN TrimBlanks(Tail(e))
    ELSE IF e # <<>> /\ e[Len(e)] \in {" ", "\t"} THEN TrimBlanks(SubSeq(e, 1, Len(e) - 1))
    ELSE e

\* An entry that is a number: an optional sign and decimal digits.
IsNumberEntry(e) ==
    LET t == TrimBlanks(e)
    IN t # <<>> /\ strtoll(t).ok /\ strtoll(t).rest = <<>>

ListedPins(csv) ==
    {strtoll(TrimBlanks(e)).value : e \in {x \in CsvEntries(csv) : IsNumberEntry(x)}}

CheckedPins == -1..13

\* C17: with a non-empty list a pin passes the allow check iff it is a
\* number entry of the list; with an empty list iff it lies in
\* [GPIO_MIN_PIN, GPIO_MAX_PIN]; entries that are not numbers allow no pin.
C17_AllowCheck ==
    \A pin \in CheckedPins :
       gpio_pin_is_allowed(pin, gpio_cfg)
       <=> IF gpio_cfg.csv # <<>> THEN pin \in ListedPins(gpio_cfg.csv)
           ELSE gpio_cfg.min <= pin /\ pin <= gpio_cfg.max

\* The same where every entry with a leading number is a number.
C17_AllowCheckCleanList ==
    (\A e \in CsvEntries(gpio_cfg.csv) :
        strtoll(TrimBlanks(e)).ok => IsNumberEntry(e))
    => C17_AllowCheck

\* A tool name as the data model defines it: 1 to 32 characters, each a
\* letter, a digit or an underscore.
ValidToolName(name) ==
    /\ Len(name) >= 1 /\ Len(name) <= 32
    /\ \A i \in 1..Len(name) : name[i] \in Lower \cup Upper \cup DecDigits \cup {"_"}

CreateInputIsText(input) ==
    /\ cJSON_IsString(input.name)
    /\ cJSON_IsString(input.description)
    /\ cJSON_IsString(input.action)

\* C18: create_tool changes the user-tool table only for a name of 1 to
\* 32 characters from [A-Z a-z 0-9 _]; for any other name, and for a
\* missing or non-string name, description or action, it returns an error
\* and leaves the table unchanged.
C18_CreateValidatesName ==
    tool_ret.op = "create" =>
       LET wellformed == /\ CreateInputIsText(tool_ret.input)
                         /\ ValidToolName(tool_ret.input.name.str)
       IN /\ user_tools # tool_ret.before => (wellformed /\ tool_ret.ok)
          /\ tool_ret.ok => (wellformed /\ tool_ret.input.name.str \in ToolNames(user_tools))
          /\ ~wellformed => (~tool_ret.ok /\ user_tools = tool_ret.before)

C18_Witness ==
    /\ tool_ret.op = "create"
    /\ CreateInputIsText(tool_ret.input)
    /\ tool_ret.input.name.str = <<"a", " ">>
    /\ ~tool_ret.ok
    /\ user_tools # <<>>
    /\ user_tools = tool_ret.before

ToolNamed(table, name) == table[CHOOSE i \in 1..Len(table) : table[i].name = name]

\* C19: creating a tool whose name exists fails and leaves the existing
\* tool unchanged, unless replace is requested, in which case description
\* and action are replaced; tool names stay unique.
C19_DuplicateOrReplace ==
    /\ Cardinality(ToolNames(user_tools)) = Len(user_tools)
    /\ (/\ tool_ret.op = "create"
        /\ CreateInputIsText(tool_ret.input)
        /\ tool_ret.input.name.str \in ToolNames(tool_ret.before))
       => IF tool_ret.input.replace.type = "true"
          THEN /\ tool_ret.ok
               /\ ToolNamed(user_tools, tool_ret.input.name.str).description
                     = tool_ret.input.description.str
               /\ ToolNamed(user_tools, tool_ret.input.name.str).action
                     = tool_ret.input.action.str
          ELSE /\ ~tool_ret.ok
               /\ user_tools = tool_ret.before

\* C19 without the replace request: a duplicate name fails, the table is
\* unchanged, and names stay unique.
C19_DuplicateFails ==
    /\ Cardinality(ToolNames(user_tools)) = Len(user_tools)
    /\ (/\ tool_ret.op = "create"
        /\ CreateInputIsText(tool_ret.input)
        /\ tool_ret.input.name.str \in ToolNames(tool_ret.before))
       => (~tool_ret.ok /\ user_tools = tool_ret.before)

\* C20: delete_user_tool with the name of a built-in tool fails and
\* removes nothing.
C20_BuiltinImmutable ==
    (/\ tool_ret.op = "delete"
     /\ cJSON_IsString(tool_ret.input.name)
     /\ tool_ret.input.name.str \in BuiltinTools)
    => (~tool_ret.ok /\ user_tools = tool_ret.before)

\* C20 without the error: the call removes nothing.
C20_BuiltinStays ==
    (/\ tool_ret.op = "delete"
     /\ cJSON_IsString(tool_ret.input.name)
     /\ tool_ret.input.name.str \in BuiltinTools)
    => user_tools = tool_ret.before

----------------------------------------------------------------------------
(* Stored chat id *)

\* The string without its leading and trailing white space.
Stripped(str) ==
    LET solid == {i \in DOMAIN str : ~IsSpace(str[i])}
    IN IF solid = {} THEN <<>>
       ELSE SubSeq(str, CHOOSE i \in solid : \A j \in solid : i <= j,
                        CHOOSE i \in solid : \A j \in solid : j <= i)

Unsigned(t) == IF t # <<>> /\ t[1] \in {"-", "+"} THEN Tail(t) ELSE t

IsDecimalInteger(t) ==
    /\ Unsigned(t) # <<>>
    /\ \A i \in DOMAIN Unsigned(t) : IsDigit(Unsigned(t)[i])

RECURSIVE DecimalMagnitude(_)
DecimalMagnitude(d) ==
    IF d = <<>> THEN 0
    ELSE 10 * DecimalMagnitude(SubSeq(d, 1, Len(d) - 1)) + DigitVal(d[Len(d)])

DecimalValue(t) ==
    IF t[1] = "-" THEN -DecimalMagnitude(Unsigned(t)) ELSE DecimalMagnitude(Unsigned(t))

\* The chat id a store image authorises: the number the chat-id string
\* spells, 0 when there is no such key or the string spells no number.
StoredChatId(image) ==
    IF NVS_KEY_TG_CHAT_ID \notin DOMAIN image THEN 0
    ELSE LET t == Stripped(image[NVS_KEY_TG_CHAT_ID])
         IN IF IsDecimalInteger(t) THEN DecimalValue(t) ELSE 0

\* C21: once telegram_init has returned, with a token stored it returned OK
\* and the authorised chat id is the non-zero decimal integer the chat-id
\* string spells (white space around it allowed), and 0 when the key is
\* absent or the string is empty, zero, or followed by a character that is
\* not white space; with no token stored it returned not-found.
C21_InitChatId ==
    pc # "init" =>
        IF NVS_KEY_TG_TOKEN \in DOMAIN nvs
        THEN init_ret = "ESP_OK" /\ s_chat_id = StoredChatId(nvs)
        ELSE init_ret = "ESP_ERR_NOT_FOUND"

C21_Witness ==
    /\ pc # "init"
    /\ init_ret = "ESP_OK"
    /\ NVS_KEY_TG_CHAT_ID \in DOMAIN nvs
    /\ nvs[NVS_KEY_TG_CHAT_ID] = <<"\t", " ", "-", "1", "7", "\n">>
    /\ s_chat_id = -17

----------------------------------------------------------------------------
(* Rate limiter *)

\* C26: for every call of admit() made with a synced clock: no more than 30
\* admissions are granted in one wall-clock hour (the 31st is denied) and
\* no more than 200 in one day; a call is denied only when the hour stands
\* at 30 or the day at 200 admissions (the 30th succeeds, and so does the
\* first call after the hour has rolled over); and a call that follows a
\* denial inside the window that caused it is denied as well.
C26_RateWindow ==
    (admit_ret.result # "none" /\ admit_ret.synced) =>
        /\ hour_allowed <= RATELIMIT_MAX_PER_HOUR
        /\ day_allowed <= RATELIMIT_MAX_PER_DAY
        /\ admit_ret.result = "Deny" =>
              \/ hour_allowed = RATELIMIT_MAX_PER_HOUR
              \/ day_allowed = RATELIMIT_MAX_PER_DAY
        /\ (admit_ret.prev = "hour" /\ HourStart(admit_ret.prev_t) = HourStart(admit_ret.t))
              => admit_ret.result = "Deny"
        /\ (admit_ret.prev = "day" /\ DayStart(admit_ret.prev_t) = DayStart(admit_ret.t))
              => admit_ret.result = "Deny"

\* The call after a denial at 30 in the hour, made in the next hour, is admitted.
C26_Witness ==
    /\ admit_ret.synced
    /\ admit_ret.prev = "hour"
    /\ HourStart(admit_ret.prev_t) # HourStart(admit_ret.t)
    /\ admit_ret.result = "Allow"
    /\ hour_allowed = 1

----------------------------------------------------------------------------
(* Agent loop *)

RepliesTo(n) == {i \in DOMAIN emitted : emitted[i].msg = n}

\* C22: for every inbound message the agent emits at most one final reply,
\* whether the turn ends with a rate-limit denial, an assistant text, a
\* fatal transport error or the iteration limit.
C22_OneFinalReply == \A n \in 1..arrived : Cardinality(RepliesTo(n)) <= 1

\* One turn ended at the iteration limit, the next with a denial.
C22_Witness ==
    /\ Len(emitted) = 2
    /\ emitted[1] = [msg |-> 1, text |-> MsgIterationLimit]
    /\ emitted[2] = [msg |-> 2, text |-> MsgQuota]

ToolTurns(n) == {i \in DOMAIN history : history[i].role = "Tool" /\ history[i].msg = n}

\* What holds at every point of a turn: no more than 5 tool iterations, no
\* more than 3 retries of a request, so no more than 5 x (1 + 3) LLM calls;
\* the turn ends with the limit text exactly when 5 tool iterations were
\* made, and then the history holds exactly 5 Tool turns of the message
\* followed by the final assistant turn.
C23_Bounded ==
    /\ iterations <= MAX_TOOL_ITERATIONS
    /\ retries <= LLM_MAX_RETRIES
    /\ llm_calls <= MAX_TOOL_ITERATIONS * (1 + LLM_MAX_RETRIES)
    /\ agent_state = "Responding" =>
          /\ agent_out = MsgIterationLimit <=> iterations = MAX_TOOL_ITERATIONS
          /\ agent_out = MsgIterationLimit =>
                /\ Cardinality(ToolTurns(agent_msg.n)) = MAX_TOOL_ITERATIONS
                /\ history[Len(history)].role = "Assistant"
                /\ history[Len(history)].msg = agent_msg.n

\* C23: whatever the LLM replies, the processing of one inbound message
\* stays within 5 tool iterations and the bounded retries and comes to an
\* end; with a ToolCall on every iteration exactly 5 Tool turns are
\* recorded and the final output is "Reached iteration limit; stopping.".
C23_TurnTerminates ==
    /\ []C23_Bounded
    /\ (agent_state # "Idle") ~> (agent_state = "Idle")

\* Five LLM calls, each answered with a ToolCall.
C23_Witness ==
    /\ agent_state = "Responding"
    /\ llm_calls = MAX_TOOL_ITERATIONS
    /\ iterations = MAX_TOOL_ITERATIONS
    /\ agent_out = MsgIterationLimit
    /\ Cardinality(ToolTurns(agent_msg.n)) = MAX_TOOL_ITERATIONS

\* C24: the history never holds more than 12 turns, and the turns it holds
\* are the most recently appended ones in the order they were appended
\* (the oldest turn is the one that goes when the buffer is full).
C24_HistoryBounded ==
    /\ Len(history) <= MAX_HISTORY_TURNS
    /\ \A i \in DOMAIN history : history[i].seq = appended - Len(history) + i

\* Thirteen turns were appended; the first of them is gone.
C24_Witness ==
    /\ appended = MAX_HISTORY_TURNS + 1
    /\ Len(history) = MAX_HISTORY_TURNS
    /\ history[1].seq = 2
    /\ agent_state = "Idle"

\* C25: at most one agent turn is in progress: a message is taken from the
\* input queue only when no turn is open, so the tool executions of one
\* message form one uninterrupted block, whatever the origins.
C25_OneTurnAtATime ==
    /\ Cardinality(open_turns) <= 1
    /\ agent_state = "Idle" <=> open_turns = {}
    /\ \A i, j, k \in DOMAIN tool_log :
          (i < j /\ j < k /\ tool_log[i].n = tool_log[k].n) => tool_log[j].n = tool_log[i].n

\* A user message from the chat is at a tool call after a scheduled firing
\* ran its own, having waited in the queue while that turn was open.
C25_Witness ==
    /\ agent_state = "ToolExecuting"
    /\ agent_msg.origin = "Chat"
    /\ Len(tool_log) >= 2
    /\ tool_log[1].origin = "Schedule"
    /\ tool_log[Len(tool_log)].origin = "Chat"

----------------------------------------------------------------------------
(* Scheduler *)

\* Job i was due at the last round of the scheduler.
DueAtTick(i) == tick_ret.before[i].active /\ tick_ret.before[i].next_fire <= tick_ret.at

\* Job i put its message on the input queue in the last round.
FiredAtTick(i) == \E k \in DOMAIN tick_ret.sent : tick_ret.sent[k] = i

\* Job i has moved on: a Once job is inactive, a recurring job has a later
\* fire time.
Advanced(i) ==
    IF cron_jobs[i].kind = "Once" THEN ~cron_jobs[i].active
    ELSE cron_jobs[i].active /\ cron_jobs[i].next_fire > tick_ret.before[i].next_fire

\* C27: after every round of the scheduler made with a synced clock, each
\* job that was active and due has either fired (its message went onto the
\* input queue, its state is advanced and the persisted table agrees) or
\* is exactly as before, still active with the same next fire time; a job
\* whose message was dropped at a full queue is of the second kind, and the
\* persisted table always agrees with the table in memory.
C27_FireOrKeep ==
    tick_ret.synced =>
        /\ cron_nvs = cron_jobs
        /\ \A i \in DOMAIN tick_ret.before :
              /\ DueAtTick(i) =>
                    \/ FiredAtTick(i) /\ Advanced(i)
                    \/ ~FiredAtTick(i) /\ cron_jobs[i] = tick_ret.before[i]
              /\ i \in tick_ret.dropped =>
                    /\ DueAtTick(i)
                    /\ ~FiredAtTick(i)
                    /\ cron_jobs[i] = tick_ret.before[i]
              /\ ~DueAtTick(i) => ~FiredAtTick(i) /\ cron_jobs[i] = tick_ret.before[i]

\* Two jobs were due in one round: the first fired, the second found the
\* queue full.
C27_Witness ==
    /\ tick_ret.synced
    /\ tick_ret.sent = <<1>>
    /\ tick_ret.dropped = {2}
    /\ cron_jobs[2].active
    /\ cron_jobs[2].next_fire <= tick_ret.at

\* C28: a round made while the clock is unsynced fires nothing and leaves
\* the table alone; in a round made with a synced clock a due job fires at
\* most once, however far behind it is, and then a Once job is inactive and
\* a Daily or Periodic job has the first fire time after now on its grid
\* (previous + k x interval for the smallest k that gives a time after
\* now); a Once job fires at most once in all.
C28_PastDueFiresOnce ==
    /\ (tick_ret.at > 0 /\ ~tick_ret.synced) =>
          /\ tick_ret.sent = <<>>
          /\ cron_jobs = tick_ret.before
    /\ tick_ret.synced =>
          \A i \in DOMAIN tick_ret.before :
             /\ Cardinality({k \in DOMAIN tick_ret.sent : tick_ret.sent[k] = i}) <= 1
             /\ FiredAtTick(i) =>
                   IF cron_jobs[i].kind = "Once" THEN ~cron_jobs[i].active
                   ELSE /\ cron_jobs[i].next_fire > tick_ret.at
                        /\ cron_jobs[i].next_fire - cron_step(cron_jobs[i]) <= tick_ret.at
                        /\ (cron_jobs[i].next_fire - tick_ret.before[i].next_fire)
                              % cron_step(cron_jobs[i]) = 0
    /\ \A i \in DOMAIN cron_jobs : cron_jobs[i].kind = "Once" => fired_count[i] <= 1

\* A Periodic job several intervals behind fired once and skipped the
\* intervals that had elapsed.
C28_Witness ==
    /\ tick_ret.synced
    /\ \E i \in DOMAIN tick_ret.before :
          /\ cron_jobs[i].kind = "Periodic"
          /\ FiredAtTick(i)
          /\ fired_count[i] = 1
          /\ cron_jobs[i].next_fire
                >= tick_ret.before[i].next_fire + 3 * cron_jobs[i].interval
          /\ cron_jobs[i].next_fire > tick_ret.at

----------------------------------------------------------------------------
(* Boot guard *)

\* C29: every boot increments the boot counter, and the counter goes back
\* to 0 only when a boot has run for 30 s without interruption; a boot that
\* finds the counter at 3 or more is in safe mode (channels up, LLM and
\* scheduler disabled); and a boot that follows a boot in safe mode is out
\* of safe mode only if the counter was reset in between, that is, the
\* earlier boot ran its 30 s.
C29_BootGuard ==
    /\ (running /\ uptime_ms < BOOT_SUCCESS_DELAY_MS) => boot_count = boot_ret.found + 1
    /\ (running /\ uptime_ms >= BOOT_SUCCESS_DELAY_MS) => boot_count = 0
    /\ (~running /\ boot_ret.boots > 0) =>
          boot_count = IF uptime_ms >= BOOT_SUCCESS_DELAY_MS THEN 0 ELSE boot_ret.found + 1
    /\ (running /\ boot_ret.found >= MAX_BOOT_FAILURES) => safe_mode
    /\ (running /\ safe_mode) =>
          services = [channels |-> TRUE, llm |-> FALSE, scheduler |-> FALSE]
    /\ (running /\ boot_ret.prev_safe /\ ~safe_mode) =>
          /\ boot_ret.found = 0
          /\ boot_ret.prev_uptime >= BOOT_SUCCESS_DELAY_MS

\* A boot that found the counter at 3 is in safe mode, and the boot before
\* it was cut short as well.
C29_Witness ==
    /\ running
    /\ safe_mode
    /\ boot_ret.found = MAX_BOOT_FAILURES
    /\ boot_ret.prev_safe
    /\ boot_ret.prev_uptime < BOOT_SUCCESS_DELAY_MS

----------------------------------------------------------------------------
(* Ids read from the chat API *)

\* C30: every update id and chat id is read as the chat API sent it: the
\* id recorded for an update that was placed on the input queue is that
\* update's id, the id a processed poll leaves in s_last_update_id is the
\* id of its update, and the chat of every accepted update is the
\* authorised chat itself, never another chat id that reads the same.
C30_IdsReadExactly ==
    /\ \A e \in Enqueued : e.last = e.u.id /\ e.u.chat = s_chat_id
    /\ (PollFinished /\ poll_path = "processed" /\ http.updates # <<>>) =>
          s_last_update_id = http.updates[Len(http.updates)].id

----------------------------------------------------------------------------
(* Order of delivery *)

\* C31: the messages placed on the input queue carry strictly ascending
\* update ids: within one response in the order of the response, across
\* polls never a lower id after a higher one, and no update twice.
C31_Fifo ==
    \A i, j \in DOMAIN enq_log : i < j => enq_log[i].u.id < enq_log[j].u.id

\* C31 for ids a double holds exactly.
C31_FifoExact ==
    \A i, j \in DOMAIN enq_log :
       (i < j /\ enq_log[i].u.id <= Exact) => enq_log[i].u.id < enq_log[j].u.id

\* C32: a poll that fails (no memory, no client, transport error, status
\* other than 200, truncated body without an update id, unparseable body,
\* ok not true) leaves s_last_update_id as it was and enqueues nothing, and
\* the next request carries the offset of the failed one.
C32_FailedPollKeepsOffset ==
    (PollFinished /\ poll_err # "ESP_OK") =>
       /\ s_last_update_id = prev.last
       /\ Len(enq_log) = prev.log
       /\ poll_request(s_last_update_id).offset = poll_request(prev.last).offset
       /\ poll_path # "no_mem" => poll_request(s_last_update_id) = req
       /\ poll_path \in {"no_mem", "http", "truncated", "parse", "not_ok"}

C32_Witness ==
    /\ PollFinished
    /\ poll_err # "ESP_OK"
    /\ poll_path = "http"
    /\ http.kind = "lost"
    /\ http.visible # {}
    /\ prev.last > 0
    /\ prev.log > 0
    /\ s_last_update_id = prev.last

\* C33: every update of a parsed response moves s_last_update_id to its
\* id, enqueued or not (no message, no text, another chat, no chat
\* authorised, queue full), so the next request asks for a later update.
C33_AdvancesPastEveryUpdate ==
    (PollFinished /\ poll_path = "processed") =>
       \A i \in DOMAIN http.updates :
          /\ s_last_update_id >= http.updates[i].id
          /\ UrlOffsetValue(poll_request(s_last_update_id).offset) > http.updates[i].id

\* C33 for ids a double holds exactly.
C33_AdvancesPastExact ==
    (PollFinished /\ poll_path = "processed") =>
       \A i \in DOMAIN http.updates :
          http.updates[i].id <= Exact =>
             /\ s_last_update_id = http.updates[i].id
             /\ UrlOffsetValue(poll_request(s_last_update_id).offset) = http.updates[i].id + 1

----------------------------------------------------------------------------
(* Updates arriving during the startup flush *)

\* The updates the chat API holds with an id above L.
LaterUpdates(pend, L) == {pend[i] : i \in {j \in DOMAIN pend : pend[j].id > L}}

\* The highest pending id flush step 1 was answered with.
FlushObserved == http.updates[1].id

\* C34: when flush step 1 has observed the highest pending id L, the flush
\* leaves s_last_update_id = L, every update with a higher id that has
\* arrived by the end of step 2 is still held by the chat API, and the
\* first steady-state poll asks for the lowest of them.
C34_FlushKeepsLaterUpdates ==
    [][(pc = "flush2" /\ pc' = "poll") =>
          LET L == FlushObserved
              later == LaterUpdates(pending, L)
              first == ServerGetUpdates(pending',
                           UrlOffsetValue(poll_request(s_last_update_id').offset),
                           POLL_LIMIT, FALSE).result
          IN /\ s_last_update_id' = L
             /\ later \subseteq LaterUpdates(pending', L)
             /\ later # {} => (first # <<>> /\ first[1] \in later
                               /\ \A u \in later : first[1].id <= u.id)]_vars

\* The part of C34 about the updates alone: none of them is confirmed by the
\* flush and the first poll does not ask past any of them.
C34_LaterUpdatesStay ==
    [][(pc = "flush2" /\ pc' = "poll") =>
          LET later == LaterUpdates(pending, FlushObserved)
          IN /\ later \subseteq LaterUpdates(pending', FlushObserved)
             /\ \A u \in later :
                   UrlOffsetValue(poll_request(s_last_update_id').offset) <= u.id]_vars

----------------------------------------------------------------------------
(* Start of the Telegram tasks *)

\* C35: telegram_start returns ESP_OK with both tasks running, or an error
\* with neither running and nothing placed on the input queue by a
\* Telegram task; with a null queue no task was created, and when the send
\* task cannot be created the poll task is deleted.
C35_StartAllOrNothing ==
    start_pc = "done" =>
       \/ /\ start_ret = "ESP_OK"
          /\ poll_task = "running"
          /\ send_task = "running"
       \/ /\ start_ret \in {"ESP_ERR_INVALID_ARG", "ESP_ERR_NO_MEM"}
          /\ poll_task \in {"none", "deleted"}
          /\ send_task = "none"
          /\ start_ret = "ESP_ERR_INVALID_ARG" => poll_task = "none"
          /\ enq_log = <<>>
          /\ input_queue = <<>>

\* The part of C35 about the tasks alone.
C35_StartTasks ==
    start_pc = "done" =>
       \/ /\ start_ret = "ESP_OK"
          /\ poll_task = "running"
          /\ send_task = "running"
       \/ /\ start_ret \in {"ESP_ERR_INVALID_ARG", "ESP_ERR_NO_MEM"}
          /\ poll_task \in {"none", "deleted"}
          /\ send_task = "none"
          /\ start_ret = "ESP_ERR_INVALID_ARG" => poll_task = "none"

\* C36: once the tasks run, s_last_update_id and the failure counter
\* change only in steps of the poll task, the send buffer is filled only
\* by the send task, and the token and the authorised chat id change only
\* in telegram_init, which has returned before either task exists.
C36_Ownership ==
    [][/\ (s_last_update_id' # s_last_update_id
           \/ s_consecutive_failures' # s_consecutive_failures)
          => (poll_task = "running" /\ pc # "init" /\ pc' # pc /\ taken' = taken)
       /\ taken' # taken
          => (send_task = "running" /\ pc' = pc
              /\ taken' = taken \cup {Head(output_queue)})
       /\ (s_bot_token' # s_bot_token \/ s_chat_id' # s_chat_id)
          => (init_ret = "none" /\ init_ret' # "none"
              /\ poll_task = "none" /\ send_task = "none")
       /\ (poll_task' = "running" \/ send_task' = "running") => init_ret' # "none"]_vars

C36_Witness ==
    /\ poll_task = "running"
    /\ send_task = "running"
    /\ taken # {}
    /\ posts # <<>>
    /\ s_last_update_id > 0
    /\ s_consecutive_failures > 0
    /\ enq_log # <<>>

----------------------------------------------------------------------------
(* The poll task never gives up *)

\* C37: with a token configured, every finished poll, whatever its outcome
\* and however many failures came before it, is followed by another call of
\* telegram_poll, which finishes in turn; every backoff is finite; and a
\* poll that the chat API answers successfully leaves the failure counter
\* at 0.
C37_NeverStopsPolling ==
    /\ PollFinished ~> (pc = "poll")
    /\ (pc = "poll" /\ s_bot_token) ~> PollFinished
    /\ [](PollFinished => delay_ms \in 0..BACKOFF_MAX_MS)
    /\ []((PollFinished /\ poll_err = "ESP_OK") => s_consecutive_failures = 0)

C37_Witness ==
    /\ PollFinished
    /\ poll_err = "ESP_OK"
    /\ poll_path = "processed"
    /\ prev.failures = BackoffFailures
    /\ s_consecutive_failures = 0

----------------------------------------------------------------------------
(* The send task *)

\* C38: every message on the output queue of the running send task is
\* taken off by it, once, and the task goes on receiving after every outcome of the
\* send; with no token or no chat id the message is discarded and no HTTP
\* request is made.
C38_SendTaskDrains ==
    /\ \A m \in 1..MaxReplies :
          (pc # "init" /\ \E i \in DOMAIN output_queue : output_queue[i] = m)
             ~> (m \in taken)
    /\ [][taken' # taken =>
             /\ Head(output_queue) \notin taken
             /\ taken' = taken \cup {Head(output_queue)}
             /\ output_queue' = Tail(output_queue)]_vars
    /\ [](\A m \in taken : \A i \in DOMAIN output_queue : output_queue[i] # m)
    /\ []((pc # "init" /\ (~s_bot_token \/ s_chat_id = 0))
             => (posts = <<>> /\ chat_log = <<>>))

C38_Witness ==
    /\ pc # "init"
    /\ s_bot_token
    /\ s_chat_id = 0
    /\ taken = 1..MaxReplies
    /\ output_queue = <<>>
    /\ posts = <<>>

----------------------------------------------------------------------------
(* The backoff delay as a function of the failure count *)

\* C39: get_backoff_delay_ms returns 0 for a failure count of 0 and
\* otherwise a delay between 5000 and 300000 ms that is not below the
\* delay of the count before; no value of the doubling loop is above
\* 2 * 300000, which an int holds.
C39_BackoffRange ==
    fn_call.fn = "get_backoff_delay_ms" =>
       LET n == fn_call.n
           d == fn_ret.delay
       IN /\ n = 0 => d = 0
          /\ n > 0 => (d \in 5000..300000 /\ d >= get_backoff_delay_ms(n - 1))
          /\ \A v \in fn_ret.values : v <= 2 * 300000 /\ v <= INT_MAX

C39_Witness ==
    /\ fn_call.fn = "get_backoff_delay_ms"
    /\ fn_call.n = INT_MAX
    /\ fn_ret.delay = 300000
    /\ 320000 \in fn_ret.values

----------------------------------------------------------------------------
(* Decimal text of an int64_t *)

RECURSIVE NumDigits(_)
NumDigits(u) == IF u < 10 THEN 1 ELSE 1 + NumDigits(u \div 10)

\* Bytes the decimal text of v takes, sign and terminator included.
TextBytes(v) == NumDigits(IF v < 0 THEN -v ELSE v) + (IF v < 0 THEN 1 ELSE 0) + 1

\* Bytes that hold the text of every value: 21 for 64 bits.
I64TextMax == TextBytes(INT64_MIN)

\* t is the decimal text of v: an optional minus sign, then digits with
\* no leading zero that spell the magnitude of v.
IsDecimalOf(t, v) ==
    LET d == IF v < 0 THEN Tail(t) ELSE t
    IN /\ t # <<>>
       /\ v < 0 => t[1] = "-"
       /\ d # <<>>
       /\ \A i \in DOMAIN d : IsDigit(d[i])
       /\ Len(d) > 1 => d[1] # "0"
       /\ DecimalMagnitude(d) = (IF v < 0 THEN -v ELSE v)

\* What both readings of C40 say of a call whose buffer is large enough,
\* of the offset parameter, and of the bytes written.
I64TextRight ==
    LET v == fn_call.val
        size == fn_call.buf_size
    IN /\ size >= TextBytes(v) => IsDecimalOf(fn_ret.text, v)
       /\ size >= I64TextMax => IsDecimalOf(fn_ret.text, v)
       /\ v < INT64_MAX => IsDecimalOf(fn_ret.offset, v + 1)
       /\ fn_ret.written \subseteq 0..(size - 1)

====
